---- MODULE Spec2Model ----
(***************************************************************************)
(* Code-Guardian: the diff decomposition, merge and line-validation engine *)
(* of AIService (ai.service.ts) and ReviewProcessor (review.processor.ts). *)
(*                                                                         *)
(* Representation of text.  A JavaScript string without further structure  *)
(* is a TLA+ string.  A multi-line text t is kept as the sequence of its   *)
(* lines, t.split('\n'): split and join('\n') are inverse bijections       *)
(* between strings and non-empty sequences of newline-free strings, so     *)
(*   text.split('\n')      is the sequence itself,                         *)
(*   lines.join('\n')      is the sequence itself (<<"">> for no lines),   *)
(*   text.length           is the lines' lengths plus one per separator,   *)
(*   text.trim().length>0  is "some line has a non-blank character".       *)
(***************************************************************************)
EXTENDS Integers, Sequences, FiniteSets, TLC

(***************************************************************************)
(* Strings                                                                 *)
(***************************************************************************)
\* F applied to the value of v: v is computed once, however often F uses it
Bind(v, F(_)) == CHOOSE r \in {F(x) : x \in {v}} : TRUE

Min(S) == CHOOSE x \in S : \A y \in S : x <= y
Max(S) == CHOOSE x \in S : \A y \in S : x >= y

\* s.substring(i - 1, j): the characters i..j of s that exist
Slice(s, i, j) ==
  IF i > Len(s) \/ j < i THEN ""
  ELSE SubSeq(s, i, IF j > Len(s) THEN Len(s) ELSE j)

\* String.prototype.startsWith
StartsWith(s, p) == Len(s) >= Len(p) /\ SubSeq(s, 1, Len(p)) = p

\* String.prototype.endsWith
EndsWith(s, p) == Len(s) >= Len(p) /\ SubSeq(s, Len(s) - Len(p) + 1, Len(s)) = p

\* the positions at which p occurs in s
Occurrences(s, p) ==
  {i \in 1..(Len(s) - Len(p) + 1) : SubSeq(s, i, i + Len(p) - 1) = p}

\* String.prototype.includes
Includes(s, p) == Len(p) = 0 \/ Occurrences(s, p) # {}

Digits == <<"0", "1", "2", "3", "4", "5", "6", "7", "8", "9">>

IsDigit(c) == \E d \in 1..10 : Digits[d] = c

DigitValue(c) == (CHOOSE d \in 1..10 : Digits[d] = c) - 1

\* the end of the maximal run of digits of s that starts at position i
\* (i - 1 when s has no digit at i): what a greedy \d* consumes
DigitRunEnd(s, i) ==
  LET stops == {j \in i..Len(s) : ~IsDigit(SubSeq(s, j, j))}
  IN  IF stops = {} THEN Len(s) ELSE Min(stops) - 1

RECURSIVE ParseInt(_)
\* parseInt of a non-empty string of decimal digits
ParseInt(s) ==
  IF Len(s) = 0 THEN 0
  ELSE 10 * ParseInt(SubSeq(s, 1, Len(s) - 1)) + DigitValue(SubSeq(s, Len(s), Len(s)))

\* the whitespace String.prototype.trim removes, as far as the texts here use it
IsBlankLine(s) == \A i \in 1..Len(s) : SubSeq(s, i, i) \in {" ", "\t"}

\* text.trim().length > 0 for a text kept as its lines
HasContent(lines) == \E i \in 1..Len(lines) : ~IsBlankLine(lines[i])

RECURSIVE SumLen(_)
SumLen(lines) == IF lines = <<>> THEN 0 ELSE Len(Head(lines)) + SumLen(Tail(lines))

\* text.length for a text kept as its lines
TextLength(lines) == SumLen(lines) + (Len(lines) - 1)

\* the marker a failed String.prototype.match returns
NoMatch == [matched |-> FALSE]

(***************************************************************************)
(* The two regular expressions of the diff parsers                         *)
(***************************************************************************)
\* line.match(/diff --git a\/(.+) b\/(.+)/): unanchored, both groups greedy
MatchFileHeader(line) ==
  LET lit == "diff --git a/"
      starts == {p \in Occurrences(line, lit) :
                   \E q \in Occurrences(line, " b/") :
                      q >= p + Len(lit) + 1 /\ q + 3 <= Len(line)}
  IN  IF starts = {} THEN NoMatch
      ELSE LET p == Min(starts)
               q == Max({q \in Occurrences(line, " b/") :
                           q >= p + Len(lit) + 1 /\ q + 3 <= Len(line)})
           IN  [matched |-> TRUE,
                g1 |-> SubSeq(line, p + Len(lit), q - 1),
                g2 |-> SubSeq(line, q + 3, Len(line))]

\* the match of /@@ -(\d+),?\d* \+(\d+),?\d* @@/ that starts at position p
MatchHunkHeaderAt(line, p) ==
  LET a1 == p + 4
      e1 == DigitRunEnd(line, a1)
      c1 == IF Slice(line, e1 + 1, e1 + 1) = "," THEN e1 + 2 ELSE e1 + 1
      f1 == DigitRunEnd(line, c1)
      a2 == f1 + 3
      e2 == DigitRunEnd(line, a2)
      c2 == IF Slice(line, e2 + 1, e2 + 1) = "," THEN e2 + 2 ELSE e2 + 1
      f2 == DigitRunEnd(line, c2)
  IN  IF /\ Slice(line, p, p + 3) = "@@ -"
         /\ e1 >= a1
         /\ Slice(line, f1 + 1, f1 + 2) = " +"
         /\ e2 >= a2
         /\ Slice(line, f2 + 1, f2 + 3) = " @@"
      THEN [matched |-> TRUE,
            g1 |-> Slice(line, a1, e1),
            g2 |-> Slice(line, a2, e2)]
      ELSE NoMatch

\* line.match(/@@ -(\d+),?\d* \+(\d+),?\d* @@/): the leftmost match
MatchHunkHeader(line) ==
  Bind({p \in Occurrences(line, "@@ -") : MatchHunkHeaderAt(line, p).matched},
       LAMBDA starts :
         IF starts = {} THEN NoMatch ELSE MatchHunkHeaderAt(line, Min(starts)))

(***************************************************************************)
(* Maps (JavaScript Map) as functions with a growing domain                *)
(***************************************************************************)
EmptyMap == [k \in {} |-> {}]

MapHas(m, k) == k \in DOMAIN m

MapSet(m, k, v) == [x \in (DOMAIN m) \cup {k} |-> IF x = k THEN v ELSE m[x]]

\* JavaScript values of a field whose type the program does not control
Num(n) == [t |-> "number", n |-> n, s |-> ""]
Str(s) == [t |-> "string", n |-> 0, s |-> s]
Undefined == [t |-> "undefined", n |-> 0, s |-> ""]

IsNum(x) == x.t = "number"
IsStr(x) == x.t = "string"

(***************************************************************************)
(* ReviewProcessor.buildValidationMap                                      *)
(***************************************************************************)
\* the locals of buildValidationMap before the loop; adds lists the calls
\* fileLinesSet.add(currentHunkStartLine) as <<index of the line, file, number>>
ValidationStart ==
  [files |-> {}, fileLines |-> EmptyMap, diffHunks |-> EmptyMap,
   currentFile |-> "", currentHunkLines |-> <<>>, currentHunkStartLine |-> 0,
   inHunk |-> FALSE, adds |-> {}]

\* diffHunks.set(currentFile, [...(diffHunks.get(currentFile) || []), ...currentHunkLines])
SaveHunk(st) ==
  MapSet(st.diffHunks, st.currentFile,
         (IF MapHas(st.diffHunks, st.currentFile)
            THEN st.diffHunks[st.currentFile] ELSE <<>>) \o st.currentHunkLines)

\* the branch of the loop body for a 'diff --git' line
ValidationFileHeader(st, line) ==
  LET match == MatchFileHeader(line)
      saved == IF st.currentFile # "" /\ Len(st.currentHunkLines) > 0
                 THEN SaveHunk(st) ELSE st.diffHunks
  IN  [st EXCEPT
         !.diffHunks = saved,
         !.currentFile = IF match.matched THEN match.g1 ELSE @,
         !.files = IF match.matched THEN @ \cup {match.g1} ELSE @,
         !.fileLines = IF match.matched /\ ~MapHas(@, match.g1)
                         THEN MapSet(@, match.g1, {}) ELSE @,
         !.currentHunkLines = <<>>,
         !.inHunk = FALSE]

\* the branch of the loop body for a '@@ ' line while a file is current
ValidationHunkHeader(st, line) ==
  LET match == MatchHunkHeader(line)
      saved == IF Len(st.currentHunkLines) > 0 THEN SaveHunk(st) ELSE st.diffHunks
  IN  IF match.matched
        THEN [st EXCEPT !.diffHunks = saved,
                        !.currentHunkStartLine = ParseInt(match.g2),
                        !.currentHunkLines = <<line>>,
                        !.inHunk = TRUE]
        ELSE [st EXCEPT !.diffHunks = saved]

\* the branch of the loop body for a line of hunk content
ValidationContent(st, i, line) ==
  IF StartsWith(line, "+") \/ StartsWith(line, " ")
    THEN [st EXCEPT
            !.currentHunkLines = Append(@, line),
            !.fileLines = MapSet(@, st.currentFile,
                                 @[st.currentFile] \cup {st.currentHunkStartLine}),
            !.adds = @ \cup {<<i, st.currentFile, st.currentHunkStartLine>>},
            !.currentHunkStartLine = @ + 1]
    ELSE [st EXCEPT !.currentHunkLines = Append(@, line)]

\* one iteration of the loop of buildValidationMap, for lines[i]
ValidationStep(st, i, line) ==
  IF StartsWith(line, "diff --git") THEN ValidationFileHeader(st, line)
  ELSE IF st.currentFile # "" /\ StartsWith(line, "@@ ") THEN ValidationHunkHeader(st, line)
  ELSE IF st.inHunk /\ st.currentFile # "" THEN ValidationContent(st, i, line)
  ELSE st

RECURSIVE ValidationLoop(_, _, _)
ValidationLoop(st, lines, i) ==
  IF i > Len(lines) THEN st
  ELSE Bind(ValidationStep(st, i, lines[i]),
            LAMBDA next : ValidationLoop(next, lines, i + 1))

\* buildValidationMap(diff), with the list of add calls beside the result
buildValidationMap(lines) ==
  LET st == ValidationLoop(ValidationStart, lines, 1)
      final == IF st.currentFile # "" /\ Len(st.currentHunkLines) > 0
                 THEN SaveHunk(st) ELSE st.diffHunks
  IN  [files |-> st.files, fileLines |-> st.fileLines, diffHunks |-> final,
       adds |-> st.adds]

\* validateCommentLocally(item, validationMap); Set.has and Map.get compare
\* by SameValueZero, so a value of another type is never a member
validateCommentLocally(item, validationMap) ==
  IF ~(IsStr(item.file) /\ item.file.s \in validationMap.files) THEN FALSE
  ELSE IF ~(/\ MapHas(validationMap.fileLines, item.file.s)
            /\ IsNum(item.line)
            /\ item.line.n \in validationMap.fileLines[item.file.s]) THEN FALSE
  ELSE IF ~(/\ MapHas(validationMap.diffHunks, item.file.s)
            /\ Len(validationMap.diffHunks[item.file.s]) > 0) THEN FALSE
  ELSE TRUE

(***************************************************************************)
(* AIService.buildLineToCodeMap                                            *)
(***************************************************************************)
\* a bug: the loop starts as if inside a hunk that begins at line 10
LineMapStartInHunk ==
  [lineToCodeMap |-> <<>>, currentFile |-> "", currentHunkStartLine |-> 10,
   inHunk |-> TRUE, mapped |-> {}]

\* the locals of buildLineToCodeMap before the loop; mapped lists the calls
\* lineToCodeMap.set(currentHunkStartLine, code) as <<index of the line, number>>
LineMapStart ==
  [lineToCodeMap |-> EmptyMap, currentFile |-> "", currentHunkStartLine |-> 0,
   inHunk |-> FALSE, mapped |-> {}]

\* "Track current file": the first if of the loop body
LineMapFileHeader(st, line) ==
  IF StartsWith(line, "diff --git")
    THEN LET match == MatchFileHeader(line)
         IN  [st EXCEPT !.currentFile = IF match.matched THEN match.g1 ELSE @,
                        !.inHunk = FALSE]
    ELSE st

\* "Parse hunk headers": the second if of the loop body
LineMapHunkHeader(st, line) ==
  IF StartsWith(line, "@@ ")
    THEN LET match == MatchHunkHeader(line)
         IN  IF match.matched
               THEN [st EXCEPT !.currentHunkStartLine = ParseInt(match.g2),
                               !.inHunk = TRUE]
               ELSE st
    ELSE st

\* a bug: a removed line advances the new-file line counter
LineMapContentCountsRemoved(st, i, line) ==
  IF st.inHunk /\ st.currentHunkStartLine > 0
    THEN IF StartsWith(line, "+") \/ StartsWith(line, " ")
           THEN [st EXCEPT
                   !.lineToCodeMap = MapSet(@, st.currentHunkStartLine,
                                            Slice(line, 2, Len(line))),
                   !.mapped = @ \cup {<<i, st.currentHunkStartLine>>},
                   !.currentHunkStartLine = @ + 1]
           ELSE IF StartsWith(line, "-")
             THEN [st EXCEPT !.currentHunkStartLine = @ + 1]
             ELSE st
    ELSE st

\* "Map line numbers to their actual code content": the third if
LineMapContent(st, i, line) ==
  IF st.inHunk /\ st.currentHunkStartLine > 0
       /\ (StartsWith(line, "+") \/ StartsWith(line, " "))
    THEN [st EXCEPT
            !.lineToCodeMap = MapSet(@, st.currentHunkStartLine,
                                     Slice(line, 2, Len(line))),
            !.mapped = @ \cup {<<i, st.currentHunkStartLine>>},
            !.currentHunkStartLine = @ + 1]
    ELSE st

\* one iteration of the loop of buildLineToCodeMap: the three ifs in turn
LineMapStep(st, i, line) ==
  Bind(LineMapFileHeader(st, line),
       LAMBDA afterFile :
         Bind(LineMapHunkHeader(afterFile, line),
              LAMBDA afterHeader : LineMapContent(afterHeader, i, line)))

RECURSIVE LineMapLoop(_, _, _)
LineMapLoop(st, lines, i) ==
  IF i > Len(lines) THEN st
  ELSE Bind(LineMapStep(st, i, lines[i]),
            LAMBDA next : LineMapLoop(next, lines, i + 1))

\* buildLineToCodeMap(diffChunk), with the list of set calls beside the map
buildLineToCodeMap(lines) ==
  LET st == LineMapLoop(LineMapStart, lines, 1)
  IN  [lineToCodeMap |-> st.lineToCodeMap, mapped |-> st.mapped]

(***************************************************************************)
(* AIService.splitDiffByFiles and splitLargeFileIntoSubChunks              *)
(***************************************************************************)
SplitStart == [fileChunks |-> <<>>, currentChunk |-> <<>>, inFile |-> FALSE,
               currentFileName |-> ""]

\* "Save previous chunk if it exists and has content"
SaveChunk(fileChunks, currentChunk) ==
  IF Len(currentChunk) > 0 /\ HasContent(currentChunk)
    THEN Append(fileChunks, currentChunk) ELSE fileChunks

\* a bug: currentChunk.push(line) skips the empty lines
PushLineSkipsEmpty(st, line) ==
  IF line = "" THEN st ELSE [st EXCEPT !.currentChunk = Append(@, line)]

\* currentChunk.push(line)
PushLine(st, line) == [st EXCEPT !.currentChunk = Append(@, line)]

\* one iteration of the loop of splitDiffByFiles: the file header closes the
\* chunk and opens the next, every other branch of the chain pushes the line
SplitStep(st, line) ==
  IF StartsWith(line, "diff --git")
    THEN LET match == MatchFileHeader(line)
         IN  [fileChunks |-> SaveChunk(st.fileChunks, st.currentChunk),
              currentChunk |-> <<line>>,
              inFile |-> TRUE,
              currentFileName |-> IF match.matched THEN match.g1
                                  ELSE st.currentFileName]
  ELSE IF StartsWith(line, "--- ") /\ st.inFile
    THEN PushLine(st, line)
  ELSE IF StartsWith(line, "+++ ") /\ st.inFile
    THEN PushLine(st, line)
  ELSE IF StartsWith(line, "@@ ") /\ st.inFile
    THEN PushLine(st, line)
  ELSE IF st.inFile /\ (StartsWith(line, "+") \/ StartsWith(line, "-")
                          \/ StartsWith(line, " "))
    THEN PushLine(st, line)
  ELSE IF StartsWith(line, "index ") /\ st.inFile
    THEN PushLine(st, line)
  ELSE IF StartsWith(line, "new file mode ") /\ st.inFile
    THEN PushLine(st, line)
  ELSE IF StartsWith(line, "deleted file mode ") /\ st.inFile
    THEN PushLine(st, line)
  ELSE IF ~st.inFile
    THEN PushLine(st, line)
  ELSE PushLine(st, line)

RECURSIVE SplitLoop(_, _, _)
SplitLoop(st, lines, i) ==
  IF i > Len(lines) THEN st
  ELSE Bind(SplitStep(st, lines[i]),
            LAMBDA next : SplitLoop(next, lines, i + 1))

\* splitDiffByFiles(diff): the file chunks, each a text kept as its lines
splitDiffByFiles(lines) ==
  LET st == SplitLoop(SplitStart, lines, 1)
      fileChunks == SaveChunk(st.fileChunks, st.currentChunk)
  IN  SelectSeq(fileChunks, HasContent)

RECURSIVE SubChunkLoopOverlaps(_, _, _, _)
\* a bug: every window takes one line of the next window as well
SubChunkLoopOverlaps(lines, actualChunkSize, i, subChunks) ==
  IF i >= Len(lines) THEN subChunks
  ELSE LET endIndex == IF i + actualChunkSize + 1 < Len(lines)
                         THEN i + actualChunkSize + 1 ELSE Len(lines)
           subChunkLines == SubSeq(lines, i + 1, endIndex)
       IN  SubChunkLoopOverlaps(lines, actualChunkSize, i + actualChunkSize,
                                IF HasContent(subChunkLines)
                                  THEN Append(subChunks, subChunkLines) ELSE subChunks)

RECURSIVE SubChunkLoop(_, _, _, _)
\* the loop of splitLargeFileIntoSubChunks from index i (0-based, as in the code)
SubChunkLoop(lines, actualChunkSize, i, subChunks) ==
  IF i >= Len(lines) THEN subChunks
  ELSE LET endIndex == IF i + actualChunkSize < Len(lines)
                         THEN i + actualChunkSize ELSE Len(lines)
           subChunkLines == SubSeq(lines, i + 1, endIndex)
       IN  SubChunkLoop(lines, actualChunkSize, i + actualChunkSize,
                        IF HasContent(subChunkLines)
                          THEN Append(subChunks, subChunkLines) ELSE subChunks)

\* a bug: the windows start at the second line
splitLargeFileSkipsFirstLine(lines, chunkSize, maxSubChunkLinesCfg) ==
  LET actualChunkSize == IF chunkSize # 0 THEN chunkSize ELSE maxSubChunkLinesCfg
  IN  SubChunkLoop(lines, actualChunkSize, 1, <<>>)

\* splitLargeFileIntoSubChunks(fileDiff, chunkSize); chunkSize 0 stands for an
\* absent one: chunkSize || this.maxSubChunkLines
splitLargeFileIntoSubChunks(lines, chunkSize, maxSubChunkLinesCfg) ==
  LET actualChunkSize == IF chunkSize # 0 THEN chunkSize ELSE maxSubChunkLinesCfg
  IN  SubChunkLoop(lines, actualChunkSize, 0, <<>>)

(***************************************************************************)
(* AIService.mergeSmallChunks and finalizeMergedBatch                      *)
(*                                                                         *)
(* A chunk is [content, label, index]: content a text kept as its lines,   *)
(* label a string, index a number.                                         *)
(***************************************************************************)
RECURSIVE JoinBlank(_)
\* texts.join('\n\n'), as its lines: an empty line between two texts
JoinBlank(texts) ==
  IF texts = <<>> THEN <<"">>
  ELSE IF Len(texts) = 1 THEN Head(texts)
  ELSE Head(texts) \o <<"">> \o JoinBlank(Tail(texts))

RECURSIVE JoinStrings(_, _)
\* strings.join(sep)
JoinStrings(strings, sep) ==
  IF strings = <<>> THEN ""
  ELSE IF Len(strings) = 1 THEN Head(strings)
  ELSE Head(strings) \o sep \o JoinStrings(Tail(strings), sep)

\* label.split(' (')[0]
LabelBase(label) ==
  LET at == Occurrences(label, " (")
  IN  IF at = {} THEN label ELSE Slice(label, 1, Min(at) - 1)

\* the label of a merged batch (the template literal of finalizeMergedBatch)
MergedLabel(batch, totalLines, totalSize) ==
  LET labels == [k \in 1..Len(batch) |-> LabelBase(batch[k].label)]
      shown == SubSeq(labels, 1, IF Len(labels) < 3 THEN Len(labels) ELSE 3)
  IN  "Merged (" \o ToString(Len(batch)) \o " files: " \o JoinStrings(shown, ", ")
        \o (IF Len(labels) > 3 THEN "..." ELSE "")
        \o ") (" \o ToString(totalLines) \o " lines, " \o ToString(totalSize) \o " chars)"

\* finalizeMergedBatch(batch, mergedChunks): mergedChunks after the push
finalizeMergedBatch(batch, mergedChunks) ==
  IF Len(batch) = 1 THEN Append(mergedChunks, batch[1])
  ELSE LET mergedContent == JoinBlank([k \in 1..Len(batch) |-> batch[k].content])
           totalLines == Len(mergedContent)
           totalSize == TextLength(mergedContent)
       IN  Append(mergedChunks,
                  [content |-> mergedContent,
                   label |-> MergedLabel(batch, totalLines, totalSize),
                   index |-> Len(mergedChunks)])

\* the locals of mergeSmallChunks before the loop
MergeStart == [mergedChunks |-> <<>>, currentBatch |-> <<>>,
               currentBatchSize |-> 0, currentBatchLines |-> 0]

\* a bug: the flush empties the batch and keeps its running totals
FlushBatchKeepsTotals(m) ==
  [mergedChunks |-> finalizeMergedBatch(m.currentBatch, m.mergedChunks),
   currentBatch |-> <<>>, currentBatchSize |-> m.currentBatchSize,
   currentBatchLines |-> m.currentBatchLines]

\* finalizeMergedBatch(currentBatch, mergedChunks) and the reset of the batch
FlushBatch(m) ==
  [mergedChunks |-> finalizeMergedBatch(m.currentBatch, m.mergedChunks),
   currentBatch |-> <<>>, currentBatchSize |-> 0, currentBatchLines |-> 0]

\* a bug: adding a chunk to the batch forgets the chunks already in it
AddToBatchForgets(m, chunk) ==
  [m EXCEPT !.currentBatch = <<chunk>>,
            !.currentBatchSize = @ + TextLength(chunk.content),
            !.currentBatchLines = @ + Len(chunk.content)]

\* "Add chunk to current batch"
AddToBatch(m, chunk) ==
  [m EXCEPT !.currentBatch = Append(@, chunk),
            !.currentBatchSize = @ + TextLength(chunk.content),
            !.currentBatchLines = @ + Len(chunk.content)]

\* a bug: a chunk that is too big by itself is added to the batch like any other
MergeIterationMergesLarge(m, chunk, optimalChunkSizeCfg, maxChunkSizeCfg) ==
  LET chunkLines == Len(chunk.content)
      chunkSize == TextLength(chunk.content)
      wouldExceedLimits ==
        \/ m.currentBatchLines + chunkLines > maxChunkSizeCfg
        \/ m.currentBatchSize + chunkSize > maxChunkSizeCfg * 1000
      m1 == IF wouldExceedLimits /\ Len(m.currentBatch) > 0 THEN FlushBatch(m) ELSE m
      m3 == AddToBatch(m1, chunk)
  IN  IF m3.currentBatchLines >= optimalChunkSizeCfg THEN FlushBatch(m3) ELSE m3

\* one iteration of the loop of mergeSmallChunks, for the candidate chunk
MergeIteration(m, chunk, optimalChunkSizeCfg, maxChunkSizeCfg) ==
  LET chunkLines == Len(chunk.content)
      chunkSize == TextLength(chunk.content)
      wouldExceedLimits ==
        \/ m.currentBatchLines + chunkLines > maxChunkSizeCfg
        \/ m.currentBatchSize + chunkSize > maxChunkSizeCfg * 1000
      m1 == IF wouldExceedLimits /\ Len(m.currentBatch) > 0 THEN FlushBatch(m) ELSE m
  IN  IF chunkLines > optimalChunkSizeCfg \/ chunkSize > optimalChunkSizeCfg * 100
        THEN LET m2 == IF Len(m1.currentBatch) > 0 THEN FlushBatch(m1) ELSE m1
             IN  [m2 EXCEPT !.mergedChunks = Append(@, chunk)]
        ELSE LET m3 == AddToBatch(m1, chunk)
             IN  IF m3.currentBatchLines >= optimalChunkSizeCfg
                   THEN FlushBatch(m3) ELSE m3

RECURSIVE MergeLoop(_, _, _, _, _)
\* the locals of mergeSmallChunks after the iterations i..upTo of its loop
MergeLoop(m, chunks, i, upTo, cfg) ==
  IF i > upTo THEN m
  ELSE Bind(MergeIteration(m, chunks[i], cfg.optimalChunkSize, cfg.maxChunkSize),
            LAMBDA next : MergeLoop(next, chunks, i + 1, upTo, cfg))

\* the locals of mergeSmallChunks at the end of each iteration of its loop:
\* entry j + 1 holds them after the first j candidates; no entry when the
\* function returns before the loop
MergeLocalsOf(chunks, cfg) ==
  IF Len(chunks) <= 1 THEN <<>>
  ELSE [x \in 1..(Len(chunks) + 1) |-> MergeLoop(MergeStart, chunks, 1, x - 1, cfg)]

\* a bug: a list with nothing to merge comes back empty
mergeSmallChunksDropsSingle(chunks, cfg) ==
  IF Len(chunks) <= 1 THEN <<>>
  ELSE LET m == MergeLoop(MergeStart, chunks, 1, Len(chunks), cfg)
       IN  IF Len(m.currentBatch) > 0 THEN FlushBatch(m).mergedChunks
           ELSE m.mergedChunks

\* mergeSmallChunks(chunks), under the configuration cfg of the service
mergeSmallChunks(chunks, cfg) ==
  IF Len(chunks) <= 1 THEN chunks
  ELSE LET m == MergeLoop(MergeStart, chunks, 1, Len(chunks), cfg)
       IN  IF Len(m.currentBatch) > 0 THEN FlushBatch(m).mergedChunks
           ELSE m.mergedChunks

\* the label analyzeDiffInChunks gives the chunk of file i of n
FileChunkLabel(i, n, fileLines, fileSize, fileName) ==
  "File chunk " \o ToString(i) \o "/" \o ToString(n) \o " (" \o ToString(fileLines)
    \o " lines, " \o ToString(fileSize) \o " chars) - "
    \o (IF fileName = "" THEN "unknown" ELSE fileName)

(***************************************************************************)
(* AIService: file names, exclusion and the sub-chunking decision          *)
(***************************************************************************)
RECURSIVE ExtractFileNameFrom(_, _)
\* the loop of extractFileNameFromDiff from line i; "" stands for null
ExtractFileNameFrom(lines, i) ==
  IF i > Len(lines) THEN ""
  ELSE LET line == lines[i]
           match == MatchFileHeader(line)
           plus == {q \in Occurrences(line, "+++ b/") : q + 6 <= Len(line)}
       IN  IF StartsWith(line, "diff --git") /\ match.matched THEN match.g1
           ELSE IF StartsWith(line, "+++ ") /\ plus # {}
             THEN Slice(line, Min(plus) + 6, Len(line))
           ELSE ExtractFileNameFrom(lines, i + 1)

\* extractFileNameFromDiff(fileDiff)
extractFileNameFromDiff(lines) == ExtractFileNameFrom(lines, 1)

\* one pattern of this.excludedFilePatterns against the file name
MatchesConfiguredPattern(fileName, pattern) ==
  IF Includes(pattern, "/")
    THEN Includes(fileName, pattern) \/ StartsWith(fileName, pattern)
    ELSE \/ fileName = pattern
         \/ EndsWith(fileName, "/" \o pattern)
         \/ Includes(fileName, "/" \o pattern)

\* the regular expressions of smartExclusions, in their order
MatchesSmartExclusion(fileName) ==
  \/ EndsWith(fileName, "package-lock.json")
  \/ EndsWith(fileName, "yarn.lock")
  \/ EndsWith(fileName, "pnpm-lock.yaml")
  \/ EndsWith(fileName, "composer.lock")
  \/ StartsWith(fileName, "dist/")
  \/ StartsWith(fileName, "build/")
  \/ StartsWith(fileName, "out/")
  \/ EndsWith(fileName, ".min.js") \/ EndsWith(fileName, ".min.css")
  \/ StartsWith(fileName, "node_modules/")
  \/ StartsWith(fileName, "vendor/")
  \/ StartsWith(fileName, ".vscode/")
  \/ StartsWith(fileName, ".idea/")
  \/ EndsWith(fileName, ".DS_Store")
  \/ EndsWith(fileName, "Thumbs.db")
  \/ StartsWith(fileName, ".git/")
  \/ EndsWith(fileName, ".log")
  \/ StartsWith(fileName, "coverage/")
  \/ Includes(fileName, "coverage.")

\* shouldExcludeFile(fileName), under the configured pattern list
shouldExcludeFile(fileName, patterns) ==
  \/ \E k \in 1..Len(patterns) : MatchesConfiguredPattern(fileName, patterns[k])
  \/ MatchesSmartExclusion(fileName)

\* fileName.match(/\.(ext1|ext2|...)$/)
HasExtension(fileName, extensions) ==
  \E e \in extensions : EndsWith(fileName, "." \o e)

CodeExtensions == {"ts", "js", "py", "java", "cpp", "c++", "cs", "php", "rb", "go", "rs"}
TextExtensions == {"md", "txt", "yml", "yaml", "xml", "html", "css"}

\* the rule of shouldSubChunkFile for text, markdown and configuration files
SubChunkTextRule(fileSize) ==
  IF fileSize < 25000
    THEN [needsSubChunking |-> FALSE, reason |-> "Text file under 25KB threshold",
          chunkSize |-> 0]
    ELSE [needsSubChunking |-> TRUE, reason |-> "Large text file needs chunking",
          chunkSize |-> 100]

\* the default rule of shouldSubChunkFile
SubChunkDefaultRule(fileLines, fileSize, maxSubChunkLinesCfg) ==
  IF fileLines > 300 \/ fileSize > 25000
    THEN [needsSubChunking |-> TRUE, reason |-> "File exceeds size thresholds",
          chunkSize |-> maxSubChunkLinesCfg]
    ELSE [needsSubChunking |-> FALSE, reason |-> "File within acceptable limits",
          chunkSize |-> 0]

\* shouldSubChunkFile(fileDiff, fileLines, fileSize, fileName); fileName "" is
\* null and chunkSize 0 an absent chunkSize
shouldSubChunkFile(fileLines, fileSize, fileName, maxSubChunkLinesCfg) ==
  IF fileSize < 15000
    THEN [needsSubChunking |-> FALSE, reason |-> "File size under 15KB threshold",
          chunkSize |-> 0]
  ELSE IF fileName # "" /\ (EndsWith(fileName, ".json") \/ EndsWith(fileName, ".lock"))
    THEN IF fileSize < 30000
           THEN [needsSubChunking |-> FALSE, reason |-> "JSON file under 30KB threshold",
                 chunkSize |-> 0]
           ELSE [needsSubChunking |-> TRUE, reason |-> "Large JSON file needs chunking",
                 chunkSize |-> 150]
  ELSE IF fileName # "" /\ HasExtension(fileName, CodeExtensions)
            /\ (fileLines > 400 \/ fileSize > 20000)
    THEN [needsSubChunking |-> TRUE, reason |-> "Large code file needs chunking",
          chunkSize |-> 120]
  ELSE IF fileName # "" /\ HasExtension(fileName, TextExtensions)
    THEN SubChunkTextRule(fileSize)
  ELSE SubChunkDefaultRule(fileLines, fileSize, maxSubChunkLinesCfg)

(***************************************************************************)
(* AIService.extractDiffHunks and findDiffHunkForLine                      *)
(***************************************************************************)
HunksStart == [hunks |-> <<>>, currentHunk |-> <<>>, currentHeader |-> "",
               currentStartLine |-> 0, inHunk |-> FALSE, stopped |-> FALSE]

\* "Save previous hunk if exists": the push of the hunk collected so far
PushHunk(st) ==
  IF Len(st.currentHunk) > 0 /\ st.currentHeader # ""
    THEN Append(st.hunks,
                [header |-> st.currentHeader, content |-> st.currentHunk,
                 startLine |-> st.currentStartLine,
                 endLine |-> st.currentStartLine + Len(st.currentHunk)])
    ELSE st.hunks

\* one iteration of the loop of extractDiffHunks, for lines[i] (i counts from 1,
\* the loop variable of the code from 0)
HunksStep(st, i, line) ==
  IF StartsWith(line, "@@ ")
    THEN LET match == MatchHunkHeader(line)
         IN  [st EXCEPT !.hunks = PushHunk(st),
                        !.currentHeader = line,
                        !.currentHunk = <<>>,
                        !.currentStartLine = IF match.matched THEN ParseInt(match.g2)
                                             ELSE i - 1,
                        !.inHunk = TRUE]
  ELSE IF st.inHunk /\ (StartsWith(line, "+") \/ StartsWith(line, "-")
                          \/ StartsWith(line, " "))
    THEN [st EXCEPT !.currentHunk = Append(@, line)]
  ELSE IF StartsWith(line, "diff --git")
    THEN [st EXCEPT !.hunks = PushHunk(st), !.stopped = TRUE]
  ELSE st

RECURSIVE HunksLoop(_, _, _)
HunksLoop(st, lines, i) ==
  IF i > Len(lines) \/ st.stopped THEN st
  ELSE Bind(HunksStep(st, i, lines[i]),
            LAMBDA next : HunksLoop(next, lines, i + 1))

\* extractDiffHunks(diffChunk); the content of a hunk is kept as its lines.
\* After the break at a file header the "final hunk" push runs once more on
\* the same locals.
extractDiffHunks(lines) == PushHunk(HunksLoop(HunksStart, lines, 1))

RECURSIVE FindHunk(_, _, _)
\* the loop of findDiffHunkForLine from hunk k; <<>> stands for null
FindHunk(hunks, targetLine, k) ==
  IF k > Len(hunks) THEN <<>>
  ELSE IF targetLine >= hunks[k].startLine /\ targetLine <= hunks[k].endLine
    THEN <<hunks[k].header>>
           \o SubSeq(hunks[k].content, 1,
                     IF Len(hunks[k].content) < 10 THEN Len(hunks[k].content) ELSE 10)
  ELSE FindHunk(hunks, targetLine, k + 1)

\* findDiffHunkForLine(hunks, targetLine): the hunk text as its lines, <<>> for null
findDiffHunkForLine(hunks, targetLine) == FindHunk(hunks, targetLine, 1)

(***************************************************************************)
(* AIService.analyzeDiffChunk: the checks on what the model returned       *)
(***************************************************************************)
UpperCase == <<"A", "B", "C", "D", "E", "F", "G", "H", "I", "J", "K", "L", "M",
               "N", "O", "P", "Q", "R", "S", "T", "U", "V", "W", "X", "Y", "Z">>
LowerCase == <<"a", "b", "c", "d", "e", "f", "g", "h", "i", "j", "k", "l", "m",
               "n", "o", "p", "q", "r", "s", "t", "u", "v", "w", "x", "y", "z">>

LowerChar(c) ==
  IF \E k \in 1..26 : UpperCase[k] = c
    THEN LowerCase[CHOOSE k \in 1..26 : UpperCase[k] = c] ELSE c

RECURSIVE ToLowerFrom(_, _)
ToLowerFrom(s, i) ==
  IF i > Len(s) THEN ""
  ELSE LowerChar(SubSeq(s, i, i)) \o ToLowerFrom(s, i + 1)

\* String.prototype.toLowerCase, for ASCII text
ToLowerCase(s) == ToLowerFrom(s, 1)

IsLetter(c) == \E k \in 1..26 : UpperCase[k] = c \/ LowerCase[k] = c
IsIdentifierStart(c) == IsLetter(c) \/ c = "_"
\* a word character of the regular expressions: [a-zA-Z0-9_]
IsWordChar(c) == IsLetter(c) \/ IsDigit(c) \/ c = "_"

\* the end of the maximal run of word characters of s that starts at i
WordRunEnd(s, i) ==
  LET stops == {j \in i..Len(s) : ~IsWordChar(SubSeq(s, j, j))}
  IN  IF stops = {} THEN Len(s) ELSE Min(stops) - 1

RECURSIVE IdentifiersFrom(_, _)
\* code.match(/\b[a-zA-Z_$][a-zA-Z0-9_$]*\b/g) from position i, for code without
\* '$': the maximal runs of word characters that begin with a letter or '_'
IdentifiersFrom(code, i) ==
  IF i > Len(code) THEN <<>>
  ELSE IF ~IsWordChar(SubSeq(code, i, i)) THEN IdentifiersFrom(code, i + 1)
  ELSE LET e == WordRunEnd(code, i)
       IN  (IF IsIdentifierStart(SubSeq(code, i, i)) THEN <<SubSeq(code, i, e)>> ELSE <<>>)
             \o IdentifiersFrom(code, e + 1)

RECURSIVE StringLiteralsFrom(_, _)
\* code.match(/'([^']*)'|"([^"]*)"/g) from position i, each match without its
\* quotes (s.slice(1, -1))
StringLiteralsFrom(code, i) ==
  IF i > Len(code) THEN <<>>
  ELSE LET q == SubSeq(code, i, i)
           closes == {j \in (i + 1)..Len(code) : SubSeq(code, j, j) = q}
       IN  IF q \in {"'", "\""} /\ closes # {}
             THEN <<Slice(code, i + 1, Min(closes) - 1)>>
                    \o StringLiteralsFrom(code, Min(closes) + 1)
             ELSE StringLiteralsFrom(code, i + 1)

SeqToSet(q) == {q[k] : k \in 1..Len(q)}

\* extractCodeKeywords(code), as the set [...new Set(keywords)] holds
extractCodeKeywords(code) ==
  LET codeLower == ToLowerCase(code)
  IN  SeqToSet(IdentifiersFrom(code, 1))
        \cup SeqToSet(StringLiteralsFrom(code, 1))
        \cup (IF Includes(codeLower, "req.") THEN {"request", "req"} ELSE {})
        \cup (IF Includes(codeLower, "res.") THEN {"response", "res"} ELSE {})
        \cup (IF Includes(codeLower, "secret") THEN {"secret", "webhook"} ELSE {})
        \cup (IF Includes(codeLower, "signature") THEN {"signature", "crypto"} ELSE {})
        \cup (IF Includes(codeLower, "rawbody") \/ Includes(codeLower, "rawBody")
                THEN {"rawbody", "body"} ELSE {})
        \cup (IF Includes(codeLower, "middleware") THEN {"middleware"} ELSE {})
        \cup (IF Includes(codeLower, "timingSafeEqual")
                THEN {"timingSafeEqual", "crypto"} ELSE {})

\* the relevanceScore of the last filter of analyzeDiffChunk
RelevanceScore(actualCode, comment) ==
  LET codeLower == ToLowerCase(actualCode)
      commentLower == ToLowerCase(comment)
      codeKeywords == extractCodeKeywords(actualCode)
      varMatches == IdentifiersFrom(actualCode, 1)
      both(a, b) == Includes(codeLower, a) /\ Includes(commentLower, b)
  IN  2 * Cardinality({w \in codeKeywords : Includes(commentLower, ToLowerCase(w))})
        + 3 * Cardinality({k \in 1..Len(varMatches) :
                             Includes(commentLower, ToLowerCase(varMatches[k]))})
        + (IF both("if (!", "check") THEN 2 ELSE 0)
        + (IF both("return", "return") THEN 1 ELSE 0)
        + (IF both("error", "error") THEN 2 ELSE 0)
        + (IF both("status", "status") THEN 2 ELSE 0)

\* JavaScript truthiness of a field of a feedback item
Truthy(x) ==
  CASE x.t = "undefined" -> FALSE
    [] x.t = "string" -> x.s # ""
    [] x.t = "number" -> x.n # 0
    [] OTHER -> TRUE

\* the first filter of analyzeDiffChunk: "Malformed feedback item"
IsWellFormedItem(item) ==
  Truthy(item.file) /\ Truthy(item.comment) /\ IsNum(item.line)

\* lineToCodeMap.get(item.line): the code text, Undefined when absent
CodeAt(codeMap, line) ==
  IF IsNum(line) /\ MapHas(codeMap, line.n) THEN Str(codeMap[line.n]) ELSE Undefined

\* a bug: the map step moves the item to the first line of its hunk's window
WithDiffHunkShiftsLine(item, hunks) ==
  [file |-> item.file,
   line |-> IF IsNum(item.line) THEN Num(item.line.n - 1) ELSE item.line,
   comment |-> item.comment,
   diffHunk |-> <<>>]

\* the map step of analyzeDiffChunk: { ...item, diffHunk: diffHunk || undefined }
WithDiffHunk(item, hunks) ==
  LET diffHunk == IF IsNum(item.line) THEN findDiffHunkForLine(hunks, item.line.n)
                  ELSE <<>>
  IN  [file |-> item.file, line |-> item.line, comment |-> item.comment,
       diffHunk |-> diffHunk]

\* item.comment.toLowerCase() raises a TypeError unless the comment is a string
RelevanceCheckThrows(item, codeMap) ==
  Truthy(CodeAt(codeMap, item.line)) /\ ~IsStr(item.comment)

\* the second filter of analyzeDiffChunk: code at the line, and relevance
IsRelevantItem(item, codeMap) ==
  LET actualCode == CodeAt(codeMap, item.line)
  IN  /\ Truthy(actualCode)
      /\ RelevanceScore(actualCode.s, item.comment.s) >= 2

\* analyzeDiffChunk(diffChunk) before its await: the hunks and the line map
\* of the chunk
PrepareChunk(diffChunk) ==
  [diffHunks |-> extractDiffHunks(diffChunk),
   lineToCodeMap |-> buildLineToCodeMap(diffChunk).lineToCodeMap]

\* analyzeDiffChunk after its await, when the model call settles with
\* response: [kind |-> "error"], [kind |-> "nonarray"] or
\* [kind |-> "array", items |-> the items]
FilterFeedback(prepared, response) ==
  IF response.kind # "array" THEN <<>>
  ELSE LET wellFormed == SelectSeq(response.items, IsWellFormedItem)
           enriched == [k \in 1..Len(wellFormed) |->
                          WithDiffHunk(wellFormed[k], prepared.diffHunks)]
           relevant(item) == IsRelevantItem(item, prepared.lineToCodeMap)
       IN  IF \E k \in 1..Len(enriched) :
                RelevanceCheckThrows(enriched[k], prepared.lineToCodeMap)
             THEN <<>>
             ELSE SelectSeq(enriched, relevant)

\* what analyzeDiffChunk(diffChunk) returns when the model call settles with
\* response
analyzeDiffChunk(diffChunk, response) ==
  Bind(PrepareChunk(diffChunk), LAMBDA prepared : FilterFeedback(prepared, response))

(***************************************************************************)
(* AIService.analyzeDiffInChunks: the first pass and the merge             *)
(*                                                                         *)
(* cfg holds the fields the constructor sets: maxSubChunkLines,            *)
(* excludedFilePatterns, chunkMergeEnabled, optimalChunkSize, maxChunkSize *)
(***************************************************************************)
SubChunkLabel(i, j, subLines, subSize) ==
  "Sub-chunk " \o ToString(i) \o "." \o ToString(j) \o " (" \o ToString(subLines)
    \o " lines, " \o ToString(subSize) \o " chars)"

RECURSIVE PushSubChunks(_, _, _, _)
\* the inner loop of the first pass: the sub-chunks of file i from j on
PushSubChunks(allChunks, subs, i, j) ==
  IF j > Len(subs) THEN allChunks
  ELSE Bind(Append(allChunks,
                   [content |-> subs[j],
                    label |-> SubChunkLabel(i, j, Len(subs[j]), TextLength(subs[j])),
                    index |-> Len(allChunks)]),
            LAMBDA next : PushSubChunks(next, subs, i, j + 1))

\* one iteration of the first pass, for file i of fileList (i counts from 1)
CollectFile(allChunks, fileList, i, cfg) ==
  LET fileDiff == fileList[i]
      fileLines == Len(fileDiff)
      fileSize == TextLength(fileDiff)
      fileName == extractFileNameFromDiff(fileDiff)
      shouldSubChunk == shouldSubChunkFile(fileLines, fileSize, fileName, cfg.maxSubChunkLines)
  IN  IF fileName # "" /\ shouldExcludeFile(fileName, cfg.excludedFilePatterns)
        THEN allChunks
      ELSE IF shouldSubChunk.needsSubChunking
        THEN PushSubChunks(allChunks,
                           splitLargeFileIntoSubChunks(fileDiff, shouldSubChunk.chunkSize,
                                                       cfg.maxSubChunkLines),
                           i, 1)
      ELSE Append(allChunks,
                  [content |-> fileDiff,
                   label |-> FileChunkLabel(i, Len(fileList), fileLines, fileSize, fileName),
                   index |-> Len(allChunks)])

RECURSIVE CollectLoop(_, _, _, _)
CollectLoop(allChunks, fileList, i, cfg) ==
  IF i > Len(fileList) THEN allChunks
  ELSE Bind(CollectFile(allChunks, fileList, i, cfg),
            LAMBDA next : CollectLoop(next, fileList, i + 1, cfg))

\* finalChunks of analyzeDiffInChunks(diff)
PlanChunks(diffLines, cfg) ==
  Bind(splitDiffByFiles(diffLines),
       LAMBDA fileList :
         Bind(CollectLoop(<<>>, fileList, 1, cfg),
              LAMBDA allChunks :
                IF cfg.chunkMergeEnabled /\ Len(allChunks) > 1
                  THEN mergeSmallChunks(allChunks, cfg)
                  ELSE allChunks))

\* the condition of analyzeDiff for the chunked analysis
NeedsChunking(diffLines, maxLines, maxSize) ==
  Len(diffLines) > maxLines \/ TextLength(diffLines) > maxSize

\* what the whole-diff path of analyzeDiff returns when the model call settles
WholeDiffFeedback(response) ==
  IF response.kind = "array" THEN response.items ELSE <<>>

\* item.diffHunk as process reads it; <<>> stands for undefined
DiffHunkOf(item) == IF "diffHunk" \in DOMAIN item THEN item.diffHunk ELSE <<>>

RECURSIVE ConcatUntilEmpty(_)
\* a bug: the collection stops at the first chunk that yielded nothing
ConcatUntilEmpty(results) ==
  IF results = <<>> \/ Head(results) = <<>> THEN <<>>
  ELSE Head(results) \o ConcatUntilEmpty(Tail(results))

RECURSIVE ConcatAll(_)
\* allFeedback.push(...feedback) for each result of a batch, in batch order
ConcatAll(results) ==
  IF results = <<>> THEN <<>> ELSE Head(results) \o ConcatAll(Tail(results))

\* the first pass of process (second version): the items validateCommentLocally
\* accepts, in order
ValidComments(items, map) ==
  LET accepted(item) == validateCommentLocally(item, map)
  IN  SelectSeq(items, accepted)

\* the items the first pass puts on failedComments, in order
InvalidComments(items, map) ==
  LET refused(item) == ~validateCommentLocally(item, map)
  IN  SelectSeq(items, refused)

(***************************************************************************)
(* GithubService.validateLineInDiff                                        *)
(***************************************************************************)
\* the locals of validateLineInDiff before the loop; currentHunkStartLine is
\* the position of the hunk header in lines.  stopped: the loop was left by
\* break, returned: the loop was left by return true
LineCheckStart ==
  [inTargetFile |-> FALSE, currentHunkStartLine |-> 0, currentHunkNewStart |-> 0,
   stopped |-> FALSE, returned |-> FALSE]

RECURSIVE HunkWalk(_, _, _, _, _, _)
\* the while loop that counts through the hunk lines up to the line the outer
\* loop is at: TRUE when it returns true.  Its second condition,
\* i + hunkLineIndex - relativeLineInHunk < lines.length, holds whenever the
\* first does
HunkWalk(lines, currentHunkStartLine, hunkLineIndex, relativeLineInHunk, currentLineInFile, lineNumber) ==
  IF hunkLineIndex > relativeLineInHunk THEN FALSE
  ELSE LET hunkLine == lines[currentHunkStartLine + hunkLineIndex]
       IN  IF StartsWith(hunkLine, "+") \/ StartsWith(hunkLine, " ")
             THEN \/ currentLineInFile = lineNumber
                  \/ HunkWalk(lines, currentHunkStartLine, hunkLineIndex + 1,
                              relativeLineInHunk, currentLineInFile + 1, lineNumber)
             ELSE HunkWalk(lines, currentHunkStartLine, hunkLineIndex + 1,
                           relativeLineInHunk, currentLineInFile, lineNumber)

\* the hunk header branch of the loop body
LineCheckHunkHeader(st, i, line) ==
  LET match == MatchHunkHeader(line)
  IN  IF st.inTargetFile /\ StartsWith(line, "@@ ") /\ match.matched
        THEN [st EXCEPT !.currentHunkNewStart = ParseInt(match.g2),
                        !.currentHunkStartLine = i]
        ELSE st

\* one iteration of the loop of validateLineInDiff, for lines[i]
LineCheckStep(st, lines, i, file, lineNumber) ==
  LET line == lines[i]
  IN  IF StartsWith(line, "diff --git") /\ Includes(line, file)
        THEN [st EXCEPT !.inTargetFile = TRUE]
      ELSE IF StartsWith(line, "diff --git") /\ st.inTargetFile /\ ~Includes(line, file)
        THEN [st EXCEPT !.stopped = TRUE]
      ELSE Bind(LineCheckHunkHeader(st, i, line),
                LAMBDA next :
                  IF next.inTargetFile /\ next.currentHunkNewStart > 0
                    THEN IF i - next.currentHunkStartLine = 0 THEN next
                         ELSE [next EXCEPT
                                 !.returned =
                                   HunkWalk(lines, next.currentHunkStartLine, 1,
                                            i - next.currentHunkStartLine,
                                            next.currentHunkNewStart, lineNumber)]
                    ELSE next)

RECURSIVE LineCheckLoop(_, _, _, _, _)
LineCheckLoop(st, lines, i, file, lineNumber) ==
  IF i > Len(lines) \/ st.stopped \/ st.returned THEN st
  ELSE Bind(LineCheckStep(st, lines, i, file, lineNumber),
            LAMBDA next : LineCheckLoop(next, lines, i + 1, file, lineNumber))

\* validateLineInDiff(installationId, owner, repo, pullNumber, file, lineNumber)
\* when getPullRequestDiff answers lines (fetched) or raises: the catch answers
\* false
validateLineInDiff(fetched, lines, file, lineNumber) ==
  IF ~fetched THEN FALSE
  ELSE LineCheckLoop(LineCheckStart, lines, 1, file, lineNumber).returned

(***************************************************************************)
(* State                                                                   *)
(***************************************************************************)
VARIABLES
  diff,             \* the diff text under analysis, as its lines
  maxSubChunkLines, \* AIService.maxSubChunkLines, set by the constructor
  tpc,              \* "input" until the text operations have run, then "done"
  validationMap,    \* buildValidationMap(diff)
  lineToCodeMap,    \* buildLineToCodeMap(diff)
  diffHunks,        \* extractDiffHunks(diff)
  files,            \* splitDiffByFiles(diff)
  subChunks,        \* chunkSize |-> splitLargeFileIntoSubChunks(diff, chunkSize)
  lineInDiff,       \* what validateLineInDiff answered for each file and line of diff
  chunks,           \* the chunk list handed to mergeSmallChunks
  optimalChunkSize, \* AIService.optimalChunkSize, set by the constructor
  maxChunkSize,     \* AIService.maxChunkSize, set by the constructor
  mpc,              \* "input" until mergeSmallChunks has run, then "done"
  mergedChunks,     \* what mergeSmallChunks(chunks) returned
  mergeLocals,      \* the locals of mergeSmallChunks(chunks) after 0, 1, ... candidates
  classified,       \* the file handed to shouldSubChunkFile: its line count, size and name
  cpc,              \* "input" until shouldSubChunkFile has run, then "done"
  subChunkDecision, \* what shouldSubChunkFile returned for the file
  fileExcluded,     \* whether analyzeDiffInChunks skips the file as excluded
  processor,        \* which ReviewProcessor.process runs the job
  service,          \* which AIService the processor is given
  maxDiffLinesForChunking, \* AIService.maxDiffLinesForChunking
  chunkMergeEnabled,       \* AIService.chunkMergeEnabled
  parallelBatchSize,       \* AIService.parallelBatchSize
  rpc,              \* where process stands
  review,           \* the Review row of the pull request
  finalChunks,      \* finalChunks of analyzeDiffInChunks
  batchStart,       \* i of the batch loop of analyzeDiffInChunks
  inFlight,         \* the chunks of the batch whose model call has not settled
  prepared,         \* chunk |-> the hunks and line map its analyzeDiffChunk holds
  chunkResults,     \* chunk |-> what its analyzeDiffChunk returned
  settled,          \* the model calls of the last batch that have settled, as they arrived
  wholeResponse,    \* how the model call of the whole-diff path settled
  invocations,      \* the chunks analyzeDiffChunk was called for, in the order of the calls
  allFeedback,      \* allFeedback of analyzeDiffInChunks
  sentToModel,      \* the diff texts given to chain.invoke so far
  feedback,         \* what analyzeDiff returned to process
  successfulComments, \* successfulComments of process
  failedComments,   \* failedComments of process
  posted,           \* the items handed to postReviewComment(sBatch) so far
  nextItem,         \* the item the posting loop of process is at
  reviewTable,      \* the rows of the Review table
  jobs              \* job |-> its data, where its process stands, the id of its review

textVars == <<diff, maxSubChunkLines, tpc, validationMap, lineToCodeMap, diffHunks, files,
              subChunks, lineInDiff>>
mergeVars == <<chunks, optimalChunkSize, maxChunkSize, mpc, mergedChunks, mergeLocals>>
runConfig == <<processor, service, maxDiffLinesForChunking, chunkMergeEnabled,
              parallelBatchSize>>
analysisVars == <<finalChunks, batchStart, inFlight, prepared, chunkResults, settled,
                  wholeResponse, invocations,
                  allFeedback, sentToModel, feedback>>
postingVars == <<successfulComments, failedComments, posted, nextItem>>
jobVars == <<reviewTable, jobs>>
runVars == <<runConfig, rpc, review, analysisVars, postingVars, jobVars>>
classifyVars == <<classified, cpc, subChunkDecision, fileExcluded>>
vars == <<textVars, mergeVars, classifyVars, runVars>>

\* the value of a result that has not been computed
Unset == [unset |-> TRUE]

(***************************************************************************)
(* Diff texts                                                              *)
(***************************************************************************)
FileHeaderA == "diff --git a/app.py b/app.py"
FileHeaderB == "diff --git a/lib.js b/lib.js"
\* git quotes a path with special characters: the path pattern finds no a/
FileHeaderQuoted == "diff --git \"a/x y\" \"b/x y\""
HunkHeader10 == "@@ -10,3 +10,4 @@"
HunkHeader0 == "@@ -1,2 +0,0 @@"
HunkHeaderBad == "@@ bad @@"
AddedLine == "+x = 1"
ContextLine == " y = 2"
RemovedLine == "-z = 3"
EmptyLine == ""
\* an added line without text
AddedEmptyLine == "+"

DiffLines == {FileHeaderA, FileHeaderB, FileHeaderQuoted, HunkHeader10, HunkHeader0,
              HunkHeaderBad, AddedLine, ContextLine, RemovedLine, EmptyLine,
              AddedEmptyLine}

MaxDiffLines == 5
MaxSubChunkSize == 3
DefaultMaxSubChunkLines == 80

DiffTexts == UNION {[1..n -> DiffLines] : n \in 1..MaxDiffLines}

\* the files and line numbers feedback is checked for
CheckedFiles == {"app.py", "lib.js", "x y", "x"}
MaxLineNumber == 16
CheckedLines == 0..MaxLineNumber

(***************************************************************************)
(* The values of the variables an operation does not use                   *)
(***************************************************************************)
DefaultOptimalChunkSize == 120
DefaultMaxChunkSize == 200

TextIdle ==
  /\ diff = <<"">>
  /\ maxSubChunkLines = DefaultMaxSubChunkLines
  /\ tpc = "idle"
  /\ validationMap = Unset
  /\ lineToCodeMap = Unset
  /\ diffHunks = Unset
  /\ files = Unset
  /\ subChunks = Unset
  /\ lineInDiff = Unset

MergeIdle ==
  /\ chunks = <<>>
  /\ optimalChunkSize = DefaultOptimalChunkSize
  /\ maxChunkSize = DefaultMaxChunkSize
  /\ mpc = "idle"
  /\ mergedChunks = Unset
  /\ mergeLocals = Unset

ClassifyIdle ==
  /\ classified = Unset
  /\ cpc = "idle"
  /\ subChunkDecision = Unset
  /\ fileExcluded = Unset

DefaultMaxDiffLinesForChunking == 300
DefaultMaxDiffSizeForChunking == 20000
DefaultParallelBatchSize == 2

\* no Review row for the pull request
NoReview == [exists |-> FALSE]

\* the locals of a job before analyzeDiff is called
NotAnalysed ==
  /\ finalChunks = <<>>
  /\ batchStart = 0
  /\ inFlight = {}
  /\ prepared = <<>>
  /\ chunkResults = <<>>
  /\ settled = <<>>
  /\ wholeResponse = Unset
  /\ invocations = <<>>
  /\ allFeedback = <<>>
  /\ sentToModel = {}
  /\ feedback = Unset

NotPosted ==
  /\ successfulComments = <<>>
  /\ failedComments = <<>>
  /\ posted = <<>>
  /\ nextItem = 1

JobsIdle ==
  /\ reviewTable = {}
  /\ jobs = <<>>

ProcessIdle ==
  /\ processor = "none"
  /\ service = "none"
  /\ maxDiffLinesForChunking = DefaultMaxDiffLinesForChunking
  /\ chunkMergeEnabled = TRUE
  /\ parallelBatchSize = DefaultParallelBatchSize
  /\ rpc = "idle"
  /\ review = NoReview
  /\ NotAnalysed
  /\ NotPosted

RunIdle == ProcessIdle /\ JobsIdle

(***************************************************************************)
(* The text operations on one diff: SpecText                               *)
(***************************************************************************)
TextInit ==
  /\ diff \in DiffTexts
  /\ maxSubChunkLines = DefaultMaxSubChunkLines
  /\ tpc = "input"
  /\ validationMap = Unset
  /\ lineToCodeMap = Unset
  /\ diffHunks = Unset
  /\ files = Unset
  /\ subChunks = Unset
  /\ lineInDiff = Unset
  /\ MergeIdle
  /\ ClassifyIdle
  /\ RunIdle

\* the parsers and splitters applied to the diff
ParseText ==
  /\ tpc = "input"
  /\ tpc' = "done"
  /\ validationMap' = buildValidationMap(diff)
  /\ lineToCodeMap' = buildLineToCodeMap(diff)
  /\ diffHunks' = extractDiffHunks(diff)
  /\ files' = splitDiffByFiles(diff)
  /\ subChunks' = [chunkSize \in 0..MaxSubChunkSize |->
                     splitLargeFileIntoSubChunks(diff, chunkSize, maxSubChunkLines)]
  /\ UNCHANGED <<diff, maxSubChunkLines, lineInDiff>>
  /\ UNCHANGED <<mergeVars, classifyVars, runVars>>

TextNext == ParseText

SpecText == TextInit /\ [][TextNext]_vars

(***************************************************************************)
(* A direct reading of a unified diff, independent of the parsers' loops   *)
(***************************************************************************)
IsFileHeaderLine(line) == StartsWith(line, "diff --git")
IsHunkMarkerLine(line) == StartsWith(line, "@@ ")
IsWellFormedHunkHeader(line) == IsHunkMarkerLine(line) /\ MatchHunkHeader(line).matched
IsNonRemovedLine(line) == StartsWith(line, "+") \/ StartsWith(line, " ")
IsRemovedLine(line) == StartsWith(line, "-")

\* the index of the last file header or hunk marker before line i, 0 if none
LastMarkerBefore(lines, i) ==
  LET ms == {j \in 1..(i - 1) : IsFileHeaderLine(lines[j]) \/ IsHunkMarkerLine(lines[j])}
  IN  IF ms = {} THEN 0 ELSE Max(ms)

\* the index of the last file header before line i, 0 if none
LastFileHeaderBefore(lines, i) ==
  LET hs == {j \in 1..(i - 1) : IsFileHeaderLine(lines[j])}
  IN  IF hs = {} THEN 0 ELSE Max(hs)

\* line i is a content line of the hunk whose well-formed header is line h
InHunkOf(lines, i, h) ==
  /\ h >= 1
  /\ h = LastMarkerBefore(lines, i)
  /\ IsWellFormedHunkHeader(lines[h])
  /\ ~IsFileHeaderLine(lines[i]) /\ ~IsHunkMarkerLine(lines[i])

\* the hunk's new-file start, the c of its header
HunkStart(lines, h) == ParseInt(MatchHunkHeader(lines[h]).g2)

\* how many added or context lines the hunk of h has up to and including line i
NonRemovedUpTo(lines, h, i) ==
  Cardinality({j \in (h + 1)..i : IsNonRemovedLine(lines[j])})

\* the path on the file header that opens the segment of line i, "" if the
\* header cannot be parsed or there is none
PathOfSegment(lines, i) ==
  LET fh == LastFileHeaderBefore(lines, i)
  IN  IF fh = 0 THEN ""
      ELSE LET match == MatchFileHeader(lines[fh])
           IN  IF match.matched THEN match.g1 ELSE ""

\* the re-scan: n is the new-file number of an added or context line inside
\* some hunk of the file
RescanValid(lines, file, n) ==
  \E i \in 1..Len(lines) :
    LET h == LastMarkerBefore(lines, i)
    IN  /\ InHunkOf(lines, i, h)
        /\ IsNonRemovedLine(lines[i])
        /\ PathOfSegment(lines, i) = file
        /\ file # ""
        /\ n = HunkStart(lines, h) + NonRemovedUpTo(lines, h, i) - 1


FeedbackAt(file, n) == [file |-> Str(file), line |-> Num(n), comment |-> Str("x")]

\* C2: validation soundness -- validateCommentLocally over buildValidationMap
\* accepts (file, line) if and only if the re-scan of the diff finds the line
\* as an added or context line of a hunk of that file
C2_ValidationSoundness ==
  tpc = "done" =>
    \A file \in CheckedFiles, n \in CheckedLines :
      validateCommentLocally(FeedbackAt(file, n), validationMap)
        <=> RescanValid(diff, file, n)

\* C3 as stated: in both maps the k-th added or context line of every hunk with
\* a well-formed header +c gets the number c + k - 1 and no other, no number
\* is used twice within the hunk, and a removed line gets none
C3_AsStated ==
  tpc = "done" =>
    \A h \in 1..Len(diff) :
      IsWellFormedHunkHeader(diff[h]) =>
        \A i \in 1..Len(diff) :
          InHunkOf(diff, i, h) =>
            LET c == HunkStart(diff, h)
                k == NonRemovedUpTo(diff, h, i)
                codeNumbers == {e[2] : e \in {m \in lineToCodeMap.mapped : m[1] = i}}
                validNumbers == {e[3] : e \in {m \in validationMap.adds : m[1] = i}}
            IN  IF IsNonRemovedLine(diff[i])
                  THEN codeNumbers = {c + k - 1} /\ validNumbers = {c + k - 1}
                  ELSE codeNumbers = {} /\ validNumbers = {}

\* some file header with a path the pattern parses comes before line h
AfterParsedFileHeader(lines, h) ==
  \E j \in 1..(h - 1) : IsFileHeaderLine(lines[j]) /\ MatchFileHeader(lines[j]).matched

\* C3, amended: line-counter monotonicity -- for a hunk with a well-formed
\* header +c, the k-th added or context line gets the number c + k - 1 and no
\* other and a removed line gets none: in buildLineToCodeMap when c >= 1, in
\* buildValidationMap when a file header with a parsed path precedes the hunk
C3_LineCounterMonotonicity ==
  tpc = "done" =>
    \A h \in 1..Len(diff) :
      IsWellFormedHunkHeader(diff[h]) =>
        \A i \in 1..Len(diff) :
          InHunkOf(diff, i, h) =>
            LET c == HunkStart(diff, h)
                k == NonRemovedUpTo(diff, h, i)
                codeNumbers == {e[2] : e \in {m \in lineToCodeMap.mapped : m[1] = i}}
                validNumbers == {e[3] : e \in {m \in validationMap.adds : m[1] = i}}
                expected == IF IsNonRemovedLine(diff[i]) THEN {c + k - 1} ELSE {}
            IN  /\ c >= 1 => codeNumbers = expected
                /\ AfterParsedFileHeader(diff, h) => validNumbers = expected
                /\ (c = 0 /\ IsRemovedLine(diff[i])) => codeNumbers = {}
                /\ IsRemovedLine(diff[i]) => validNumbers = {}

\* a hunk +10 after a parsed file header whose second non-removed line, after a
\* removed line, has been numbered 11 by both maps
C3_Witness ==
  /\ tpc = "done"
  /\ \E h \in 1..Len(diff), r \in 1..Len(diff), i \in 1..Len(diff) :
       /\ diff[h] = HunkHeader10 /\ AfterParsedFileHeader(diff, h)
       /\ InHunkOf(diff, r, h) /\ IsRemovedLine(diff[r]) /\ r < i
       /\ InHunkOf(diff, i, h)
       /\ <<i, 11>> \in lineToCodeMap.mapped
       /\ <<i, "app.py", 11>> \in validationMap.adds

(***************************************************************************)
(* Round trips of the two splitters                                        *)
(***************************************************************************)
RECURSIVE Flatten(_)
\* the lines of the texts of a list, in order
Flatten(texts) == IF texts = <<>> THEN <<>> ELSE Head(texts) \o Flatten(Tail(texts))

\* texts.join('\n'), as its lines: the texts' lines in order, and the empty
\* string, which has the one line "", for an empty list
JoinTexts(texts) == IF texts = <<>> THEN <<"">> ELSE Flatten(texts)

RECURSIVE LinesAt(_, _, _)
\* the lines of a text at the indexes of keep, from index i on, in order
LinesAt(lines, keep, i) ==
  IF i > Len(lines) THEN <<>>
  ELSE (IF i \in keep THEN <<lines[i]>> ELSE <<>>) \o LinesAt(lines, keep, i + 1)

\* the lines before the first file header (all lines when there is none)
PreambleLength(lines) ==
  LET hs == {j \in 1..Len(lines) : IsFileHeaderLine(lines[j])}
  IN  IF hs = {} THEN Len(lines) ELSE Min(hs) - 1

\* C6 as stated: every input line is in exactly one segment of
\* splitDiffByFiles, so joining the segments in order gives the diff again
C6_AsStated == tpc = "done" => JoinTexts(files) = diff

\* C6, amended: split round trip -- every input line is in exactly one segment,
\* in order, except the lines before the first file header when all of them
\* are blank, which are in none: joining the segments gives the diff without them
C6_SplitRoundTrip ==
  tpc = "done" =>
    LET p == PreambleLength(diff)
        dropped == IF HasContent(SubSeq(diff, 1, p)) THEN {} ELSE 1..p
        kept == LinesAt(diff, (1..Len(diff)) \ dropped, 1)
    IN  /\ Flatten(files) = kept
        /\ JoinTexts(files) = IF kept = <<>> THEN <<"">> ELSE kept

\* a diff of two files after a blank first line: two segments, the line dropped
C6_Witness ==
  /\ tpc = "done"
  /\ Len(diff) >= 4 /\ diff[1] = EmptyLine /\ IsFileHeaderLine(diff[2])
  /\ Len(files) = 2 /\ Len(files[1]) >= 2

\* the window of chunkSize lines that holds line i
WindowOf(lines, chunkSize, i) ==
  LET first == ((i - 1) \div chunkSize) * chunkSize + 1
      last == IF first + chunkSize - 1 < Len(lines)
                THEN first + chunkSize - 1 ELSE Len(lines)
  IN  SubSeq(lines, first, last)

\* C7 as stated: for every chunk size >= 1 the sub-chunks' lines, in order, are
\* the segment's lines
C7_AsStated ==
  tpc = "done" =>
    \A chunkSize \in 1..MaxSubChunkSize : JoinTexts(subChunks[chunkSize]) = diff

\* C7, amended: sub-chunk round trip -- for every chunk size >= 1 the
\* sub-chunks' lines, in order, are the segment's lines without the lines of
\* the windows that are empty or whitespace-only, which are dropped
C7_SubChunkRoundTrip ==
  tpc = "done" =>
    \A chunkSize \in 1..MaxSubChunkSize :
      LET kept == LinesAt(diff, {i \in 1..Len(diff) :
                                   HasContent(WindowOf(diff, chunkSize, i))}, 1)
      IN  /\ Flatten(subChunks[chunkSize]) = kept
          /\ JoinTexts(subChunks[chunkSize]) = IF kept = <<>> THEN <<"">> ELSE kept

\* a segment of five lines cut into windows of two, the blank last window dropped
C7_Witness ==
  /\ tpc = "done"
  /\ Len(diff) = 5 /\ diff[5] = EmptyLine /\ diff[4] # EmptyLine /\ diff[2] # EmptyLine
  /\ Len(subChunks[2]) = 2

(***************************************************************************)
(* The hunks of a chunk                                                    *)
(***************************************************************************)
IsContentLine(line) ==
  StartsWith(line, "+") \/ StartsWith(line, "-") \/ StartsWith(line, " ")

\* the indices of the hunk markers of lines, in source order
MarkerIndices(lines) ==
  LET marks == {i \in 1..Len(lines) : IsHunkMarkerLine(lines[i])}
      nth[k \in 1..Cardinality(marks)] ==
        CHOOSE i \in marks : Cardinality({j \in marks : j <= i}) = k
  IN  nth

\* the content lines that follow the marker at line h, up to the next marker
ContentLinesOf(lines, h) ==
  LET later == {j \in (h + 1)..Len(lines) : IsHunkMarkerLine(lines[j])}
      last == IF later = {} THEN Len(lines) ELSE Min(later) - 1
  IN  SelectSeq(SubSeq(lines, h + 1, last), IsContentLine)

\* a file segment: its file header line first and no other, and every hunk
\* marker well formed and followed by a content line
IsFileSegmentWithHunks(lines) ==
  /\ IsFileHeaderLine(lines[1])
  /\ \A i \in 2..Len(lines) : ~IsFileHeaderLine(lines[i])
  /\ \A h \in 1..Len(lines) :
       IsHunkMarkerLine(lines[h]) =>
         /\ IsWellFormedHunkHeader(lines[h])
         /\ h < Len(lines) /\ IsContentLine(lines[h + 1])

\* C14: for a file segment that begins with its file header line and holds k
\* well-formed hunk headers, each followed by at least one content line,
\* extractDiffHunks returns exactly k hunks in source order, the i-th with the
\* i-th header and its content lines.
C14_OneHunkPerHeader ==
  (tpc = "done" /\ IsFileSegmentWithHunks(diff)) =>
    LET headers == MarkerIndices(diff)
    IN  /\ Len(diffHunks) = Len(headers)
        /\ \A i \in 1..Len(headers) :
             /\ diffHunks[i].header = diff[headers[i]]
             /\ diffHunks[i].content = ContentLinesOf(diff, headers[i])

\* C16: every hunk extractDiffHunks returns for a well-formed header has
\* startLine equal to the header's new-file start c and endLine equal to c
\* plus the number of its added or context content lines.
C16_HunkLineRange ==
  tpc = "done" =>
    \A i \in 1..Len(diffHunks) :
      LET match == MatchHunkHeader(diffHunks[i].header)
          c == ParseInt(match.g2)
      IN  match.matched =>
            /\ diffHunks[i].startLine = c
            /\ diffHunks[i].endLine
                 = c + Len(SelectSeq(diffHunks[i].content, IsNonRemovedLine))

(***************************************************************************)
(* mergeSmallChunks on one chunk list: SpecMerge                           *)
(***************************************************************************)
RECURSIVE Repeat(_, _)
\* s.repeat(n)
Repeat(s, n) ==
  IF n = 0 THEN ""
  ELSE LET half == Repeat(s, n \div 2)
       IN  half \o half \o (IF n % 2 = 1 THEN s ELSE "")

MaxChunks == 4
WideLineLength == 1500

\* the contents of the chunks: texts of one, two and three lines, and a text
\* of one long line
ChunkContents == {<<"+a">>, <<"+b", "+c">>, <<"+d", "+e", "+f">>,
                  <<Repeat("w", WideLineLength)>>}

\* the chunk analyzeDiffInChunks makes of file k of n, none of them sub-chunked
FileChunk(content, k, n) ==
  [content |-> content,
   label |-> FileChunkLabel(k, n, Len(content), TextLength(content),
                            "f" \o ToString(k) \o ".py"),
   index |-> k - 1]

ChunkLists ==
  UNION {{[k \in 1..n |-> FileChunk(contents[k], k, n)] :
            contents \in [1..n -> ChunkContents]} : n \in 0..MaxChunks}

\* the limits the constructor may read from the configuration
OptimalChunkSizes == {1, 2, 3, 16}
MaxChunkSizes == 1..4

MergeInit ==
  /\ TextIdle
  /\ chunks \in ChunkLists
  /\ optimalChunkSize \in OptimalChunkSizes
  /\ maxChunkSize \in MaxChunkSizes
  /\ mpc = "input"
  /\ mergedChunks = Unset
  /\ mergeLocals = Unset
  /\ ClassifyIdle
  /\ RunIdle

\* mergeSmallChunks(chunks)
Merge ==
  /\ mpc = "input"
  /\ mpc' = "done"
  /\ mergedChunks' = mergeSmallChunks(chunks, [optimalChunkSize |-> optimalChunkSize,
                                               maxChunkSize |-> maxChunkSize])
  /\ mergeLocals' = MergeLocalsOf(chunks, [optimalChunkSize |-> optimalChunkSize,
                                           maxChunkSize |-> maxChunkSize])
  /\ UNCHANGED <<chunks, optimalChunkSize, maxChunkSize>>
  /\ UNCHANGED <<textVars, classifyVars, runVars>>

MergeNext == Merge

SpecMerge == MergeInit /\ [][MergeNext]_vars

\* a chunk of the output that finalizeMergedBatch made of two or more chunks
IsFused(chunk) == StartsWith(chunk.label, "Merged (")

\* C8: no chunk that mergeSmallChunks produces by fusing two or more input
\* chunks has more than maxChunkSize lines or more than maxChunkSize * 1000
\* characters.
C8_FusedWithinMaximum ==
  mpc = "done" =>
    \A j \in 1..Len(mergedChunks) :
      IsFused(mergedChunks[j]) =>
        /\ Len(mergedChunks[j].content) <= maxChunkSize
        /\ TextLength(mergedChunks[j].content) <= maxChunkSize * 1000

\* C9: merging a list of exactly one chunk returns that chunk unchanged
\* (content, label and index), and merging the empty list returns the empty
\* list.
C9_MergeIdempotence ==
  (mpc = "done" /\ Len(chunks) <= 1) => mergedChunks = chunks

C9_Witness ==
  /\ mpc = "done"
  /\ Len(chunks) = 1
  /\ mergedChunks = chunks
  /\ Len(chunks[1].content) > maxChunkSize

RECURSIVE Regroups(_, _, _, _)
\* the output chunks from j on are made of the input chunks from i on, taken
\* in order: each output chunk is one input chunk itself, or the contents of
\* the next two or more input chunks joined by blank lines
Regroups(out, j, in, i) ==
  IF j > Len(out) THEN i > Len(in)
  ELSE \E k \in i..Len(in) :
         /\ IF k = i THEN out[j] = in[i]
            ELSE out[j].content = JoinBlank([x \in 1..(k - i + 1) |-> in[i + x - 1].content])
         /\ Regroups(out, j + 1, in, k + 1)

\* C10: mergeSmallChunks is one order-preserving pass: every input chunk's
\* content is in exactly one output chunk, once, and the constituents of the
\* output chunks read in order are the input chunks in input order.
C10_OrderPreservingPartition ==
  mpc = "done" => Regroups(mergedChunks, 1, chunks, 1)

C10_Witness ==
  /\ mpc = "done"
  /\ Len(chunks) = 4
  /\ Len(mergedChunks) = 2
  /\ IsFused(mergedChunks[1])
  /\ ~IsFused(mergedChunks[2])
  /\ chunks[1].content # chunks[2].content

(***************************************************************************)
(* One review job: Spec                                                    *)
(*                                                                         *)
(* The job runs ReviewProcessor.process: "direct" is the process of        *)
(* src/review/review.processor.ts, which posts each item of the feedback,  *)
(* "host" the process that asks validateLineInDiff about each item before  *)
(* it posts it, "local" the process that validates against                 *)
(* buildValidationMap and posts one batch.  An action is the code between  *)
(* two awaits; the outcome of the awaited call is the input of the action. *)
(***************************************************************************)
HunkHeader1 == "@@ -1,1 +1,2 @@"
FileHeaderLock == "diff --git a/package-lock.json b/package-lock.json"
FileHeaderDist == "diff --git a/dist/x.js b/dist/x.js"
FileHeaderMin == "diff --git a/a.min.js b/a.min.js"
FileHeaderGo == "diff --git a/c.go b/c.go"

\* app.py with one hunk: the new-file lines 10, 11 and 12
SegmentApp == <<FileHeaderA, HunkHeader10, ContextLine, AddedLine, RemovedLine, ContextLine>>
SegmentLib == <<FileHeaderB, HunkHeader1, ContextLine, AddedLine>>
SegmentGo == <<FileHeaderGo, HunkHeader1, AddedLine, AddedLine>>
SegmentLock == <<FileHeaderLock, HunkHeader1, AddedLine>>
SegmentDist == <<FileHeaderDist, HunkHeader1, AddedLine>>
SegmentMin == <<FileHeaderMin, HunkHeader1, AddedLine>>

\* the diffs getPullRequestDiff may return
ReviewDiffs == {<<"">>,
                SegmentApp,
                SegmentApp \o SegmentLib,
                SegmentApp \o SegmentLock,
                SegmentDist \o SegmentApp \o SegmentMin,
                SegmentApp \o SegmentLib \o SegmentGo}

Item(file, line, comment) == [file |-> file, line |-> line, comment |-> comment]

\* what the model may say about a line
GoodItem == Item(Str("app.py"), Num(11), Str("x is unused"))
GoodLibItem == Item(Str("lib.js"), Num(2), Str("x is unused"))
BadLineItem == Item(Str("app.py"), Num(9), Str("x is unused"))
BadFileItem == Item(Str("ghost.py"), Num(11), Str("x is unused"))
EmptyCommentItem == Item(Str("app.py"), Num(11), Str(""))
StringLineItem == Item(Str("app.py"), Str("11"), Str("x is unused"))
NoFileItem == Item(Undefined, Num(11), Str("x is unused"))
IrrelevantItem == Item(Str("app.py"), Num(11), Str("Looks odd"))
NumberCommentItem == Item(Str("app.py"), Num(11), Num(5))

ModelItems == {GoodItem, GoodLibItem, BadLineItem, BadFileItem, EmptyCommentItem,
               StringLineItem, NoFileItem, IrrelevantItem, NumberCommentItem}

\* what the output parser gives for a response that is a JSON object
NotAnArray == [object |-> TRUE]

\* how a call of the model settles: it raises, parses to something that is not
\* an array (an object), or parses to an array of items
ModelResponses ==
  {[kind |-> "error"], [kind |-> "nonarray"], [kind |-> "array", items |-> <<>>]}
    \cup {[kind |-> "array", items |-> <<x>>] : x \in ModelItems}
    \cup {[kind |-> "array", items |-> <<GoodItem, x>>] : x \in ModelItems}

\* ai.excludedFilePatterns as src/config/configuration.ts sets it by default
excludedFilePatterns ==
  <<"package-lock.json", "yarn.lock", "pnpm-lock.yaml", "dist/", "build/",
    "node_modules/", ".git/", ".DS_Store", "Thumbs.db", ".vscode/", ".idea/">>

SmallMaxDiffLines == 1

\* the fields of the service the chunked analysis reads
ServiceConfig ==
  [maxSubChunkLines |-> maxSubChunkLines,
   excludedFilePatterns |-> excludedFilePatterns,
   chunkMergeEnabled |-> chunkMergeEnabled,
   optimalChunkSize |-> optimalChunkSize,
   maxChunkSize |-> maxChunkSize]

\* a Review row left by an earlier job on the same pull request
EarlierReview == [exists |-> TRUE, status |-> "COMPLETED", result |-> <<>>]

Init ==
  /\ diff \in ReviewDiffs
  /\ maxSubChunkLines = DefaultMaxSubChunkLines
  /\ tpc = "idle"
  /\ validationMap = Unset
  /\ lineToCodeMap = Unset
  /\ diffHunks = Unset
  /\ files = Unset
  /\ subChunks = Unset
  /\ lineInDiff = Unset
  /\ MergeIdle
  /\ ClassifyIdle
  /\ processor \in {"direct", "host", "local"}
  /\ service \in {"chunking", "single"}
  /\ maxDiffLinesForChunking \in {SmallMaxDiffLines, DefaultMaxDiffLinesForChunking}
  /\ chunkMergeEnabled \in BOOLEAN
  /\ parallelBatchSize \in {1, DefaultParallelBatchSize}
  /\ service = "single" =>
       /\ maxDiffLinesForChunking = DefaultMaxDiffLinesForChunking
       /\ chunkMergeEnabled
       /\ parallelBatchSize = DefaultParallelBatchSize
  /\ rpc = "start"
  /\ review \in {NoReview, EarlierReview}
  /\ NotAnalysed
  /\ NotPosted
  /\ JobsIdle

\* what no action of a job changes
runFixed == <<runConfig, diff, maxSubChunkLines, tpc, lineToCodeMap, diffHunks, files, subChunks,
              lineInDiff,
              mergeVars, classifyVars, jobVars>>

\* process raises: the job fails
Raise == rpc' = "failed"

\* prisma.repository.findUnique
FindRepository ==
  /\ rpc = "start"
  /\ \E found \in BOOLEAN : IF found THEN rpc' = "upsert" ELSE Raise
  /\ UNCHANGED <<runFixed, validationMap, review, analysisVars, postingVars>>

\* prisma.review.upsert
UpsertReview ==
  /\ rpc = "upsert"
  /\ \E ok \in BOOLEAN :
       IF ok
         THEN /\ review' = IF review.exists THEN [review EXCEPT !.status = "PENDING"]
                           ELSE [exists |-> TRUE, status |-> "PENDING", result |-> Unset]
              /\ rpc' = "mark"
         ELSE Raise /\ UNCHANGED review
  /\ UNCHANGED <<runFixed, validationMap, analysisVars, postingVars>>

\* a bug: the first update writes the final status
MarkProcessingWritesCompleted ==
  /\ rpc = "mark"
  /\ \E ok \in BOOLEAN :
       review' = IF ok THEN [review EXCEPT !.status = "COMPLETED"] ELSE review
  /\ rpc' = "fetch"
  /\ UNCHANGED <<runFixed, validationMap, analysisVars, postingVars>>

\* prisma.review.update to PROCESSING; a failure is logged and ignored
MarkProcessing ==
  /\ rpc = "mark"
  /\ \E ok \in BOOLEAN :
       review' = IF ok THEN [review EXCEPT !.status = "PROCESSING"] ELSE review
  /\ rpc' = "fetch"
  /\ UNCHANGED <<runFixed, validationMap, analysisVars, postingVars>>

\* vcsService.getPullRequestDiff, and buildValidationMap where process has it
FetchDiff ==
  /\ rpc = "fetch"
  /\ \E ok \in BOOLEAN :
       IF ok
         THEN /\ rpc' = "rules"
              /\ validationMap' = IF processor = "local" THEN buildValidationMap(diff)
                                  ELSE validationMap
         ELSE Raise /\ UNCHANGED validationMap
  /\ UNCHANGED <<runFixed, review, analysisVars, postingVars>>

\* vcsService.getFileContent for the rules file
FetchRules ==
  /\ rpc = "rules"
  /\ \E ok \in BOOLEAN : IF ok THEN rpc' = "analyze" ELSE Raise
  /\ UNCHANGED <<runFixed, validationMap, review, analysisVars, postingVars>>

\* where process goes on when analyzeDiff has returned fb
AfterAnalysis(fb) ==
  IF processor = "local" THEN "validate"
  ELSE IF Len(fb) = 0 THEN "complete"
  ELSE IF processor = "host" THEN "check"
  ELSE "post"

\* a bug: the batch leaves out the last of its chunks
BatchOfSkipsLast(chunkList, i) ==
  {k \in 1..Len(chunkList) : i < k /\ k < i + parallelBatchSize}

\* a bug: the batch takes one chunk more than parallelBatchSize
BatchOfOneMore(chunkList, i) ==
  {k \in 1..Len(chunkList) : i < k /\ k <= i + parallelBatchSize + 1}

\* the chunks of the batch that starts after chunk i
BatchOf(chunkList, i) ==
  {k \in 1..Len(chunkList) : i < k /\ k <= i + parallelBatchSize}

\* batch.map(async (chunk, batchIndex) => ...): the chunks of the batch in the
\* order analyzeDiffChunk is called for them
CallsOf(batch) ==
  [x \in 1..Cardinality(batch) |->
     CHOOSE k \in batch : Cardinality({j \in batch : j < k}) = x - 1]

\* a bug: the results of the batch are taken in the order the calls settled
BatchResultsByArrival(results, start, n) ==
  [x \in 1..n |-> results[settled[x].chunk]]

\* batchResults of analyzeDiffInChunks: what Promise.all resolves to, the
\* results of the n chunks after chunk start in the order of the batch
BatchResults(results, start, n) ==
  [x \in 1..n |-> results[start + x]]

\* aiService.analyzeDiff up to its first await: the whole diff goes to the
\* model, or analyzeDiffInChunks plans the chunks and starts the first batch
StartAnalysis ==
  /\ rpc = "analyze"
  /\ IF \/ service = "single"
        \/ ~NeedsChunking(diff, maxDiffLinesForChunking, DefaultMaxDiffSizeForChunking)
       THEN /\ rpc' = "whole"
            /\ sentToModel' = sentToModel \cup {diff}
            /\ UNCHANGED <<finalChunks, batchStart, inFlight, prepared, chunkResults,
                           settled, wholeResponse, invocations, allFeedback, feedback>>
       ELSE \E planned \in {PlanChunks(diff, ServiceConfig)} :
              /\ finalChunks' = planned
              /\ batchStart' = 0
              /\ prepared' = [k \in BatchOf(planned, 0) |-> PrepareChunk(planned[k].content)]
              /\ chunkResults' = [k \in BatchOf(planned, 0) |-> Unset]
              /\ settled' = settled
              /\ wholeResponse' = wholeResponse
              /\ invocations' = invocations \o CallsOf(BatchOf(planned, 0))
              /\ inFlight' = BatchOf(planned, 0)
              /\ sentToModel' = sentToModel
                                  \cup {planned[k].content : k \in BatchOf(planned, 0)}
              /\ allFeedback' = <<>>
              /\ IF Len(planned) = 0
                   THEN feedback' = <<>> /\ rpc' = AfterAnalysis(<<>>)
                   ELSE feedback' = feedback /\ rpc' = "batch"
  /\ UNCHANGED <<runFixed, validationMap, review, postingVars>>

\* what the service of a single call does when its model call settles:
\* return feedback after the await, with no try around it and no test of the
\* value; raised tells that the call's error leaves analyzeDiff, iterable
\* that the value returned is an array
SingleCallFeedback(response) ==
  IF response.kind = "error"
    THEN [raised |-> TRUE, iterable |-> FALSE, value |-> Unset]
  ELSE IF response.kind = "array"
    THEN [raised |-> FALSE, iterable |-> TRUE, value |-> response.items]
  ELSE [raised |-> FALSE, iterable |-> FALSE, value |-> NotAnArray]

\* the model call of the whole-diff path settles; process reads
\* feedback.length and enters for (const item of feedback) with no await in
\* between, and the loop raises a TypeError on an object
WholeSettles ==
  /\ rpc = "whole"
  /\ \E response \in ModelResponses :
       /\ wholeResponse' = response
       /\ IF service = "single"
            THEN \E outcome \in {SingleCallFeedback(response)} :
                   /\ feedback' = outcome.value
                   /\ IF outcome.raised \/ ~outcome.iterable
                        THEN Raise
                        ELSE rpc' = AfterAnalysis(outcome.value)
            ELSE /\ feedback' = WholeDiffFeedback(response)
                 /\ rpc' = AfterAnalysis(WholeDiffFeedback(response))
  /\ UNCHANGED <<runFixed, validationMap, review, postingVars, finalChunks, batchStart,
                 inFlight, prepared, chunkResults, settled, invocations, allFeedback,
                 sentToModel>>

\* a bug: a model call that raises is not caught, and process raises with it
ChunkSettlesRaises ==
  /\ rpc = "batch"
  /\ \E k \in inFlight, response \in ModelResponses :
       /\ chunkResults' = [chunkResults EXCEPT
                             ![k] = FilterFeedback(prepared[k], response)]
       /\ inFlight' = inFlight \ {k}
       /\ settled' = Append(settled, [chunk |-> k, response |-> response])
       /\ rpc' = IF response.kind = "error" THEN "failed" ELSE rpc
  /\ UNCHANGED <<runFixed, validationMap, review, postingVars, finalChunks,
                 batchStart, prepared, wholeResponse, invocations, allFeedback,
                 sentToModel, feedback>>

\* the model call of one chunk of the batch settles
ChunkSettles ==
  /\ rpc = "batch"
  /\ \E k \in inFlight, response \in ModelResponses :
       /\ chunkResults' = [chunkResults EXCEPT
                             ![k] = FilterFeedback(prepared[k], response)]
       /\ inFlight' = inFlight \ {k}
       /\ settled' = Append(settled, [chunk |-> k, response |-> response])
  /\ UNCHANGED <<runFixed, validationMap, review, postingVars, rpc, finalChunks,
                 batchStart, prepared, wholeResponse, invocations, allFeedback,
                 sentToModel, feedback>>

\* Promise.all of the batch resolves: its results are collected in chunk order
\* and the next batch starts, or analyzeDiff returns
BatchCompletes ==
  /\ rpc = "batch"
  /\ inFlight = {}
  /\ \E next \in {BatchOf(finalChunks, batchStart + parallelBatchSize)},
        collected \in {allFeedback \o ConcatAll(
                         BatchResults(chunkResults, batchStart,
                                      Cardinality(BatchOf(finalChunks, batchStart))))} :
       /\ allFeedback' = collected
       /\ batchStart' = batchStart + parallelBatchSize
       /\ prepared' = [k \in next |-> PrepareChunk(finalChunks[k].content)]
       /\ chunkResults' = [k \in next |-> Unset]
       /\ settled' = IF next = {} THEN settled ELSE <<>>
       /\ inFlight' = next
       /\ invocations' = invocations \o CallsOf(next)
       /\ sentToModel' = sentToModel \cup {finalChunks[k].content : k \in next}
       /\ IF next = {}
            THEN feedback' = collected /\ rpc' = AfterAnalysis(collected)
            ELSE feedback' = feedback /\ rpc' = "batch"
  /\ UNCHANGED <<runFixed, validationMap, review, postingVars, finalChunks,
                 wholeResponse>>

\* the item as the posting collaborator receives it
PostedItem(item) ==
  [file |-> item.file, line |-> item.line, comment |-> item.comment,
   diffHunk |-> DiffHunkOf(item)]

\* "direct": one turn of the loop over the feedback, postReviewComment for the
\* item; when the call raises so does process
PostComment ==
  /\ processor = "direct"
  /\ rpc = "post"
  /\ posted' = Append(posted, PostedItem(feedback[nextItem]))
  /\ \E ok \in BOOLEAN :
       IF ok
         THEN /\ nextItem' = nextItem + 1
              /\ rpc' = IF nextItem = Len(feedback) THEN "complete" ELSE "post"
         ELSE Raise /\ UNCHANGED nextItem
  /\ UNCHANGED <<runFixed, validationMap, review, analysisVars, successfulComments,
                 failedComments>>

\* the reason process records for an item the diff does not hold
NotInDiff(item) == "is not part of the actual diff"

\* where the loop of "host" goes on after the item at nextItem
AfterItem == IF nextItem = Len(feedback) THEN "complete" ELSE "check"

\* "host": validateLineInDiff settles for the item; the collaborator reads the
\* diff again and answers whether the line is part of it.  An item it refuses
\* goes on failedComments and the loop continues
CheckLine ==
  /\ processor = "host"
  /\ rpc = "check"
  /\ \E isValidLine \in BOOLEAN :
       IF isValidLine
         THEN /\ rpc' = "postChecked"
              /\ UNCHANGED <<failedComments, nextItem>>
         ELSE /\ failedComments' = Append(failedComments,
                                          [item |-> feedback[nextItem],
                                           error |-> NotInDiff(feedback[nextItem])])
              /\ nextItem' = nextItem + 1
              /\ rpc' = AfterItem
  /\ UNCHANGED <<runFixed, validationMap, review, analysisVars, successfulComments, posted>>

\* "host": postReviewComment settles for the item; when it raises the catch of
\* the loop body puts the item on failedComments and the loop continues
PostChecked ==
  /\ processor = "host"
  /\ rpc = "postChecked"
  /\ posted' = Append(posted, PostedItem(feedback[nextItem]))
  /\ \E ok \in BOOLEAN :
       IF ok
         THEN /\ successfulComments' = Append(successfulComments, feedback[nextItem])
              /\ UNCHANGED failedComments
         ELSE /\ failedComments' = Append(failedComments,
                                          [item |-> feedback[nextItem],
                                           error |-> "Failed to post comment"])
              /\ UNCHANGED successfulComments
  /\ nextItem' = nextItem + 1
  /\ rpc' = AfterItem
  /\ UNCHANGED <<runFixed, validationMap, review, analysisVars>>

\* "local": the first pass over the feedback, and the call of
\* postReviewCommentsBatch when an item was accepted
ValidateComments ==
  /\ processor = "local"
  /\ rpc = "validate"
  /\ \E valid \in {ValidComments(feedback, validationMap)},
        invalid \in {InvalidComments(feedback, validationMap)} :
       /\ successfulComments' = valid
       /\ failedComments' = [k \in 1..Len(invalid) |->
                               [item |-> invalid[k], error |-> NotInDiff(invalid[k])]]
       /\ IF Len(valid) > 0
            THEN /\ posted' = posted \o [k \in 1..Len(valid) |-> PostedItem(valid[k])]
                 /\ rpc' = "posting"
            ELSE /\ posted' = posted
                 /\ rpc' = "complete"
  /\ UNCHANGED <<runFixed, validationMap, review, analysisVars, nextItem>>

\* a bug: when the batch post raises the successful list is cleared and its
\* items are recorded nowhere
BatchPostSettlesForgets ==
  /\ rpc = "posting"
  /\ \E ok \in BOOLEAN :
       /\ successfulComments' = IF ok THEN successfulComments ELSE <<>>
       /\ UNCHANGED failedComments
  /\ rpc' = "complete"
  /\ UNCHANGED <<runFixed, validationMap, review, analysisVars, posted, nextItem>>

\* postReviewCommentsBatch settles; when it raises every item of the batch
\* moves to failedComments
BatchPostSettles ==
  /\ rpc = "posting"
  /\ \E ok \in BOOLEAN :
       IF ok
         THEN UNCHANGED <<successfulComments, failedComments>>
         ELSE /\ failedComments' =
                   failedComments \o [k \in 1..Len(successfulComments) |->
                                        [item |-> successfulComments[k],
                                         error |-> "Batch posting failed"]]
              /\ successfulComments' = <<>>
  /\ rpc' = "complete"
  /\ UNCHANGED <<runFixed, validationMap, review, analysisVars, posted, nextItem>>

\* prisma.review.update to COMPLETED with the feedback as result; a failure is
\* logged and ignored
CompleteReview ==
  /\ rpc = "complete"
  /\ \E ok \in BOOLEAN :
       review' = IF ok /\ review.exists
                   THEN [review EXCEPT !.status = "COMPLETED", !.result = feedback]
                   ELSE review
  /\ rpc' = "returned"
  /\ UNCHANGED <<runFixed, validationMap, analysisVars, postingVars>>

Next ==
  \/ FindRepository
  \/ UpsertReview
  \/ MarkProcessing
  \/ FetchDiff
  \/ FetchRules
  \/ StartAnalysis
  \/ WholeSettles
  \/ ChunkSettles
  \/ BatchCompletes
  \/ PostComment
  \/ CheckLine
  \/ PostChecked
  \/ ValidateComments
  \/ BatchPostSettles
  \/ CompleteReview

Spec == Init /\ [][Next]_vars

\* the path of a file header line is one the analysis must leave out
IsExcludedHeader(line) ==
  /\ StartsWith(line, "diff --git")
  /\ MatchFileHeader(line).matched
  /\ LET path == MatchFileHeader(line).g1
     IN  \/ path = "package-lock.json"
         \/ EndsWith(path, ".min.js")
         \/ StartsWith(path, "dist/")

\* C1: no feedback item is handed to the posting collaborator unless its
\* (file, line) is part of the diff: every posted item names a file of the
\* diff and the new-file number of an added or context line of that file.
C1_PostedOnlyIfInDiff ==
  \A k \in 1..Len(posted) :
    /\ IsStr(posted[k].file)
    /\ IsNum(posted[k].line)
    /\ RescanValid(diff, posted[k].file.s, posted[k].line.n)

\* C4: exclusion completeness -- no text sent to the model holds the segment
\* of a file whose path is package-lock.json, ends in .min.js or starts with
\* dist/, on the whole-diff path and on the chunked path.
C4_ExcludedNeverSent ==
  \A text \in sentToModel :
    \A i \in 1..Len(text) : ~IsExcludedHeader(text[i])

\* C5: structural validation -- every feedback item that reaches posting has
\* a non-empty file, a non-empty comment and a numeric line, on the
\* whole-diff path and on the chunked path.
C5_PostedWellFormed ==
  \A k \in 1..Len(posted) :
    /\ IsStr(posted[k].file) /\ posted[k].file.s # ""
    /\ IsStr(posted[k].comment) /\ posted[k].comment.s # ""
    /\ IsNum(posted[k].line)

(***************************************************************************)
(* The batches of analyzeDiffInChunks                                      *)
(***************************************************************************)
\* the group of chunk k: groups of parallelBatchSize chunks, counted from 0
GroupOf(k) == (k - 1) \div parallelBatchSize

\* the chunks of the last batch, in the order of the batch
BatchChunks ==
  [x \in 1..Cardinality(BatchOf(finalChunks, batchStart)) |-> batchStart + x]

\* how the model call of chunk k of the last batch settled
ResponseOf(k) == (CHOOSE e \in SeqToSet(settled) : e.chunk = k).response

\* the analysis of chunk k failed: the model call raised or did not give an
\* array, or the check of an item raised
ChunkFailed(k) ==
  \/ ResponseOf(k).kind # "array"
  \/ \E j \in 1..Len(ResponseOf(k).items) :
       /\ IsWellFormedItem(ResponseOf(k).items[j])
       /\ RelevanceCheckThrows(ResponseOf(k).items[j], prepared[k].lineToCodeMap)

\* what the checks of chunk k accept of the items the model returned, each item
\* judged on its own
AcceptedOneByOne(k) ==
  ConcatAll([j \in 1..Len(ResponseOf(k).items) |->
               FilterFeedback(prepared[k],
                              [kind |-> "array", items |-> <<ResponseOf(k).items[j]>>])])

\* process has the feedback of analyzeDiff
AnalysisReturned ==
  rpc \in {"post", "check", "postChecked", "validate", "posting", "complete", "returned"}

\* C11: batch orchestration bounds concurrency -- at every moment at most
\* parallelBatchSize chunk analyses are in flight, and no analysis of group
\* N+1 starts before every analysis of group N has settled: analyses start
\* only when none is in flight, and those that start together are the chunks
\* of one group, the next one.
C11_BoundedSequentialBatches ==
  [][/\ Cardinality(inFlight') <= parallelBatchSize
     /\ (inFlight' \ inFlight # {}) =>
          /\ inFlight = {}
          /\ \A k \in inFlight' : GroupOf(k) * parallelBatchSize = batchStart'
          /\ \A k \in 1..Len(finalChunks') :
               GroupOf(k) * parallelBatchSize = batchStart' => k \in inFlight'
          /\ batchStart' = 0 \/ batchStart' = batchStart + parallelBatchSize
    ]_vars

\* two chunks have settled as the first group and the third chunk is in flight
\* as the second
C11_Witness ==
  /\ rpc = "batch"
  /\ parallelBatchSize = 2
  /\ Len(finalChunks) = 3
  /\ batchStart = 2
  /\ inFlight = {3}

\* C12: per-chunk failure isolation -- when the analysis of some chunks fails,
\* the orchestrator goes on without raising, each failed chunk contributes
\* no feedback, and the feedback grows by everything the checks accept from
\* each chunk of the batch that did not fail, so the result holds the complete
\* feedback of those chunks.
C12_FailureIsolation ==
  [][rpc = "batch" =>
       /\ rpc' # "failed"
       /\ inFlight = {} =>
            LET notFailed(k) == ~ChunkFailed(k)
                done == SelectSeq(BatchChunks, notFailed)
            IN  /\ \A x \in 1..Len(BatchChunks) :
                     ChunkFailed(BatchChunks[x]) => chunkResults[BatchChunks[x]] = <<>>
                /\ allFeedback' = allFeedback
                                    \o ConcatAll([x \in 1..Len(done) |->
                                                    AcceptedOneByOne(done[x])])
                /\ rpc' # "batch" => feedback' = allFeedback'
    ]_vars

\* analyzeDiff has returned the feedback of the second chunk of a batch whose
\* first chunk failed
C12_Witness ==
  /\ AnalysisReturned
  /\ Len(settled) = 2
  /\ \E i \in 1..2 : settled[i].chunk = 1 /\ settled[i].response.kind = "error"
  /\ Len(feedback) > 0
  /\ feedback[1].file = Str("lib.js")

\* C13: deterministic output order -- the aggregated feedback is ordered by
\* chunk and then by the order within the chunk, for every order in which the
\* analyses of a group settle: a batch adds what analyzeDiffChunk returns for
\* its chunks, taken by chunk index.
C13_ChunkOrder ==
  [][(rpc = "batch" /\ inFlight = {}) =>
       /\ allFeedback' = allFeedback
                           \o ConcatAll([x \in 1..Len(BatchChunks) |->
                                           FilterFeedback(prepared[BatchChunks[x]],
                                                          ResponseOf(BatchChunks[x]))])
       /\ rpc' # "batch" => feedback' = allFeedback'
    ]_vars

\* the second chunk settled before the first, each gave feedback, and the
\* feedback of the first chunk comes first
C13_Witness ==
  /\ AnalysisReturned
  /\ Len(settled) = 2
  /\ settled[1].chunk = 2 /\ settled[2].chunk = 1
  /\ Len(feedback) = 3
  /\ feedback[1].file = Str("app.py") /\ feedback[2].file = Str("ghost.py")
  /\ feedback[3].file = Str("lib.js")

(***************************************************************************)
(* The line map of a chunk with several files                              *)
(***************************************************************************)
\* the paths on the file headers of a chunk
PathsOf(lines) ==
  {MatchFileHeader(lines[i]).g1 :
     i \in {j \in 1..Len(lines) : /\ IsFileHeaderLine(lines[j])
                                  /\ MatchFileHeader(lines[j]).matched}}

\* the code text of new-file line n of the file, by the re-scan: the text
\* after the +/space of each added or context line that has this number
RescanCodes(lines, file, n) ==
  {Slice(lines[i], 2, Len(lines[i])) :
     i \in {j \in 1..Len(lines) :
              LET h == LastMarkerBefore(lines, j)
              IN  /\ InHunkOf(lines, j, h)
                  /\ IsNonRemovedLine(lines[j])
                  /\ PathOfSegment(lines, j) = file
                  /\ n = HunkStart(lines, h) + NonRemovedUpTo(lines, h, j) - 1}}

\* C15: the line map is keyed by (path, new-file line) -- in a chunk with
\* hunks of more than one file, the code text looked up to check an item for
\* file F, line N is the text of F's new-file line N, and nothing is found
\* when F has no line N: never the text of line N of another file.
C15_LineMapKeyedByPath ==
  \A k \in DOMAIN prepared :
    \A file \in PathsOf(finalChunks[k].content), n \in CheckedLines :
      LET actualCode == CodeAt(prepared[k].lineToCodeMap, Num(n))
          codes == RescanCodes(finalChunks[k].content, file, n)
      IN  IF codes = {} THEN actualCode = Undefined
          ELSE IsStr(actualCode) /\ actualCode.s \in codes

(***************************************************************************)
(* What a run records and returns                                          *)
(***************************************************************************)
\* C17: the feedback list a run returns and hands to the store as
\* review.result is the validated list -- it holds only items validation
\* accepted and no item rejected as not part of the diff.
C17_StoredResultValidated ==
  (processor = "local" /\ rpc = "returned") =>
    /\ \A k \in 1..Len(feedback) : validateCommentLocally(feedback[k], validationMap)
    /\ (review.exists /\ review.status = "COMPLETED") =>
         \A k \in 1..Len(review.result) :
           validateCommentLocally(review.result[k], validationMap)

\* the entries of failedComments that hold the item
FailedEntries(item) ==
  {k \in 1..Len(failedComments) : failedComments[k].item = item}

\* each item handed to a posting call is on the successful list or on the
\* failed list with a reason
PostedAccounted(sent, successful, failed) ==
  \A k \in 1..Len(sent) :
    \/ \E j \in 1..Len(successful) : PostedItem(successful[j]) = sent[k]
    \/ \E j \in 1..Len(failed) :
         PostedItem(failed[j].item) = sent[k] /\ Len(failed[j].error) > 0

\* C18: a posting failure does not abort the run -- the step in which a call
\* that posts a comment settles never makes process raise, and once the call
\* has settled each item handed to it is on the successful list or on the
\* failed list with a reason.
C18_PostingFailureIsolated ==
  [][(rpc \in {"post", "postChecked", "posting"}) =>
       /\ rpc' # "failed"
       /\ processor # "direct" =>
            PostedAccounted(posted', successfulComments', failedComments')
    ]_vars

\* how often the item occurs in the list
CountOf(item, list) == Cardinality({k \in 1..Len(list) : list[k] = item})

\* C19: complete per-run accounting -- when the comment phase of a run has
\* ended, every feedback item of the analysis is on exactly one of the
\* successful and the failed list, each failed entry keeps the item with its
\* file and line and has a reason, and successful + failed = total, also
\* after a failed batch post.
C19_CompleteAccounting ==
  (processor \in {"host", "local"} /\ rpc \in {"complete", "returned"}) =>
    /\ Len(successfulComments) + Len(failedComments) = Len(feedback)
    /\ \A item \in SeqToSet(feedback) :
         CountOf(item, feedback)
           = CountOf(item, successfulComments) + Cardinality(FailedEntries(item))
    /\ \A k \in 1..Len(failedComments) :
         /\ Len(failedComments[k].error) > 0
         /\ failedComments[k].item \in SeqToSet(feedback)

\* the batch post of one accepted item failed after another item was refused:
\* both are on the failed list, each with its reason
C19_Witness ==
  /\ processor = "local"
  /\ rpc = "complete"
  /\ Len(feedback) = 2
  /\ successfulComments = <<>>
  /\ Len(failedComments) = 2
  /\ failedComments[1].error = NotInDiff(failedComments[1].item)
  /\ failedComments[2].error = "Batch posting failed"
  /\ Len(posted) = 1

\* C20: a malformed feedback item is rejected on its own, and its presence
\* does not change the outcome of the other items returned for the chunk:
\* what analyzeDiffChunk returns for an array of items is what it returns for
\* each item alone, in order.
C20_MalformedItemIsolated ==
  rpc = "batch" =>
    \A i \in 1..Len(settled) :
      settled[i].response.kind = "array" =>
        chunkResults[settled[i].chunk] = AcceptedOneByOne(settled[i].chunk)


(***************************************************************************)
(* The segments of splitDiffByFiles and the windows of a large file        *)
(***************************************************************************)
\* the indexes of the file header lines of a text
FileHeaderIndices(lines) == {j \in 1..Len(lines) : IsFileHeaderLine(lines[j])}

\* C23: splitDiffByFiles returns exactly one segment per file header line, the
\* lines before the first header being kept in the first file's segment, and
\* no segment at all when the text has no file header
C23_OneSegmentPerFileHeader ==
  tpc = "done" =>
    /\ Len(files) = Cardinality(FileHeaderIndices(diff))
    /\ \A k \in 1..Len(files) :
         Cardinality(FileHeaderIndices(files[k])) = 1

\* the first lines of the windows of chunkSize lines that are not blank
KeptWindowStarts(lines, chunkSize) ==
  {s \in 1..Len(lines) :
     /\ (s - 1) % chunkSize = 0
     /\ HasContent(WindowOf(lines, chunkSize, s))}

\* the k-th smallest member of a set of numbers
KthOf(S, k) == CHOOSE s \in S : Cardinality({t \in S : t < s}) = k - 1

\* C24: for every chunk size >= 1 each sub-chunk is a window of consecutive
\* lines of the segment, not empty or whitespace-only, of at most chunkSize
\* lines; the windows do not overlap, and a window of fewer than chunkSize
\* lines ends at the last line of the segment
C24_SubChunkWindows ==
  tpc = "done" =>
    \A chunkSize \in 1..MaxSubChunkSize :
      LET subs == subChunks[chunkSize]
          kept == KeptWindowStarts(diff, chunkSize)
      IN  /\ Len(subs) = Cardinality(kept)
          /\ \A k \in 1..Len(subs) :
               LET first == KthOf(kept, k)
                   last == first + Len(subs[k]) - 1
               IN  /\ Len(subs[k]) >= 1
                   /\ Len(subs[k]) <= chunkSize
                   /\ last <= Len(diff)
                   /\ subs[k] = SubSeq(diff, first, last)
                   /\ HasContent(subs[k])
                   /\ Len(subs[k]) < chunkSize => last = Len(diff)
                   /\ k < Len(subs) => last < KthOf(kept, k + 1)

\* a segment of five lines cut into windows of two: three sub-chunks, the last
\* of them the one line that is left, and a blank line inside a kept window
C24_Witness ==
  /\ tpc = "done"
  /\ Len(diff) = 5 /\ diff[5] # EmptyLine /\ diff[3] = EmptyLine
  /\ Len(subChunks[2]) = 3
  /\ Len(subChunks[2][3]) = 1
  /\ Len(subChunks[2][1]) = 2

(***************************************************************************)
(* Headers the parsers cannot read                                         *)
(***************************************************************************)
\* line i is a content line after a '@@ ' line that does not match the hunk
\* header pattern, with no header or file boundary in between
AfterMalformedHunkHeader(lines, i) ==
  LET h == LastMarkerBefore(lines, i)
  IN  /\ h >= 1
      /\ IsHunkMarkerLine(lines[h])
      /\ ~IsWellFormedHunkHeader(lines[h])
      /\ ~IsFileHeaderLine(lines[i]) /\ ~IsHunkMarkerLine(lines[i])

\* C28: the content lines that follow a malformed '@@ ' line, up to the next
\* header or file boundary, get no new-file line number: no entry of the line
\* map and no entry of a valid-line set is made for them
C28_MalformedHunkHeaderIgnored ==
  tpc = "done" =>
    \A i \in 1..Len(diff) :
      AfterMalformedHunkHeader(diff, i) =>
        /\ {m \in lineToCodeMap.mapped : m[1] = i} = {}
        /\ {m \in validationMap.adds : m[1] = i} = {}

\* line i lies in the segment of a file header whose path cannot be parsed
InUnparsedSegment(lines, i) ==
  LET fh == LastFileHeaderBefore(lines, i)
  IN  fh >= 1 /\ ~MatchFileHeader(lines[fh]).matched

\* C29: no line of a segment whose file header path cannot be parsed is added
\* to the valid-line set of any file, in particular not to that of the file
\* before it
C29_UnparsedPathNotMapped ==
  tpc = "done" =>
    \A i \in 1..Len(diff) :
      InUnparsedSegment(diff, i) =>
        {m \in validationMap.adds : m[1] = i} = {}


(***************************************************************************)
(* The loop of mergeSmallChunks, candidate by candidate                    *)
(***************************************************************************)
\* the candidate alone exceeds the optimal threshold
IsLargeChunk(chunk) ==
  \/ Len(chunk.content) > optimalChunkSize
  \/ TextLength(chunk.content) > optimalChunkSize * 100

\* the chunk finalizeMergedBatch makes of a batch is the batch's one chunk
\* itself, or holds the contents of its chunks joined by blank lines
IsFlushOf(chunk, batch) ==
  IF Len(batch) = 1 THEN chunk = batch[1]
  ELSE chunk.content = JoinBlank([k \in 1..Len(batch) |-> batch[k].content])

\* C26: a candidate that alone exceeds the optimal threshold is never fused:
\* the open batch, if any, is flushed before it, the candidate itself is
\* pushed after it with its content, label and index unchanged, no batch is
\* open afterwards, and the candidate is in the output at the place it was
\* pushed
C26_LargeChunkKeptSeparate ==
  mpc = "done" =>
    /\ \A j \in 1..Len(chunks) :
         (Len(chunks) >= 2 /\ IsLargeChunk(chunks[j])) =>
           LET before == mergeLocals[j]
               after == mergeLocals[j + 1]
               flushed == IF Len(before.currentBatch) > 0 THEN 1 ELSE 0
               at == Len(before.mergedChunks) + flushed + 1
           IN  /\ Len(after.mergedChunks) = at
               /\ SubSeq(after.mergedChunks, 1, Len(before.mergedChunks))
                    = before.mergedChunks
               /\ flushed = 1 => IsFlushOf(after.mergedChunks[at - 1], before.currentBatch)
               /\ after.mergedChunks[at] = chunks[j]
               /\ after.currentBatch = <<>>
               /\ Len(mergedChunks) >= at
               /\ mergedChunks[at] = chunks[j]
               /\ ~IsFused(mergedChunks[at])
    /\ \A j \in 1..Len(chunks) :
         IsLargeChunk(chunks[j]) => \E k \in 1..Len(mergedChunks) : mergedChunks[k] = chunks[j]

\* two small chunks in the open batch when a chunk of one long line arrives:
\* the batch is flushed as a fused chunk and the long chunk follows it as it is
C26_Witness ==
  /\ mpc = "done"
  /\ Len(chunks) = 4
  /\ IsLargeChunk(chunks[3])
  /\ Len(chunks[3].content) <= optimalChunkSize
  /\ Len(mergeLocals[3].currentBatch) = 2
  /\ IsFused(mergedChunks[1])
  /\ mergedChunks[2] = chunks[3]
  /\ Len(mergedChunks) = 3

RECURSIVE SumLines(_)
\* the sum of the line counts of the chunks of a batch
SumLines(batch) ==
  IF batch = <<>> THEN 0 ELSE Len(Head(batch).content) + SumLines(Tail(batch))

RECURSIVE SumSizes(_)
\* the sum of the character counts of the chunks of a batch
SumSizes(batch) ==
  IF batch = <<>> THEN 0 ELSE TextLength(Head(batch).content) + SumSizes(Tail(batch))

\* C27: greedy flush invariant -- after each candidate the running line total
\* of the open batch is below the optimal threshold, the running line and
\* character totals are the sums over the chunks in the open batch, and the
\* batch left open after the last candidate is flushed into the output
C27_GreedyFlushInvariant ==
  (mpc = "done" /\ Len(chunks) >= 2) =>
    /\ Len(mergeLocals) = Len(chunks) + 1
    /\ \A x \in 1..Len(mergeLocals) :
         LET m == mergeLocals[x]
         IN  /\ m.currentBatchLines < optimalChunkSize
             /\ m.currentBatchLines = SumLines(m.currentBatch)
             /\ m.currentBatchSize = SumSizes(m.currentBatch)
             /\ \A k \in 1..Len(m.currentBatch) : ~IsLargeChunk(m.currentBatch[k])
    /\ LET last == mergeLocals[Len(chunks) + 1]
       IN  IF Len(last.currentBatch) = 0 THEN mergedChunks = last.mergedChunks
           ELSE /\ Len(mergedChunks) = Len(last.mergedChunks) + 1
                /\ SubSeq(mergedChunks, 1, Len(last.mergedChunks)) = last.mergedChunks
                /\ IsFlushOf(mergedChunks[Len(mergedChunks)], last.currentBatch)

\* a batch of two chunks open after the third candidate, the second candidate
\* having closed a batch by reaching the threshold, and a batch of two chunks
\* left open by the last candidate and flushed into the output
C27_Witness ==
  /\ mpc = "done"
  /\ Len(chunks) = 4
  /\ mergeLocals[3].currentBatch = <<>>
  /\ Len(mergeLocals[3].mergedChunks) = 1
  /\ IsFused(mergeLocals[3].mergedChunks[1])
  /\ Len(mergeLocals[5].currentBatch) = 2
  /\ mergeLocals[5].currentBatchLines = 2
  /\ Len(mergedChunks) = 2
  /\ IsFused(mergedChunks[2])


(***************************************************************************)
(* The line-existence check of analyzeDiffChunk                            *)
(***************************************************************************)
\* the added and context lines of the hunks of a text that have the new-file
\* number n
NumberedLines(lines, n) ==
  {i \in 1..Len(lines) :
     LET h == LastMarkerBefore(lines, i)
     IN  /\ InHunkOf(lines, i, h)
         /\ IsNonRemovedLine(lines[i])
         /\ n = HunkStart(lines, h) + NonRemovedUpTo(lines, h, i) - 1}

\* the check "No code found at line": lineToCodeMap.get(item.line) is truthy
LineExists(codeMap, n) == Truthy(CodeAt(codeMap, Num(n)))

\* C30: the line-existence check of a chunk passes for line n if and only if
\* n is the new-file number of an added or context line of a hunk of the
\* chunk, whatever the text of that line
C30_LineExistenceCheck ==
  tpc = "done" =>
    \A n \in CheckedLines :
      LineExists(lineToCodeMap.lineToCodeMap, n) <=> NumberedLines(diff, n) # {}


(***************************************************************************)
(* What analyzeDiff hands back to process                                  *)
(***************************************************************************)
\* process is inside analyzeDiff
InAnalysis == rpc \in {"analyze", "whole", "batch"}

\* the step ends the analysis by an error: analyzeDiff raises, or it returns
\* what is not a list and process raises on it at once
AnalysisFails == InAnalysis /\ rpc' = "failed"

\* the step leaves analyzeDiff with a list that process goes on with
AnalysisReturnsList == InAnalysis /\ rpc' \in {"post", "check", "validate", "complete"}

\* C21: analyzeDiff never raises -- whatever the diff and however the model
\* calls settle, every step that leaves analyzeDiff returns a list, and the
\* list is empty when the call of the whole-diff path raised or did not parse
\* to an array
C21_AnalyzeDiffNeverRaises ==
  [][/\ ~AnalysisFails
     /\ (AnalysisReturnsList /\ rpc = "whole" /\ wholeResponse'.kind # "array")
          => Len(feedback') = 0]_vars

\* C22: for the empty diff text analyzeDiff does not raise and returns the
\* empty list, however the model call settles
C22_EmptyDiffEmptyFeedback ==
  [][(diff = <<"">>) =>
       /\ ~AnalysisFails
       /\ AnalysisReturnsList => Len(feedback') = 0]_vars


(***************************************************************************)
(* shouldSubChunkFile on one file: SpecClassify                            *)
(***************************************************************************)
\* line counts, sizes and names on both sides of every threshold of the rules
MeasuredLines == {1, 300, 301, 400, 401}
MeasuredSizes == {14999, 15000, 20000, 20001, 24999, 25000, 25001, 29999, 30000}
\* "" stands for the null of a file whose name was not found
MeasuredNames == {"", "src/app.ts", "main.go", "package.json", "yarn.lock", "README.md",
                  "logo.bin", "dist/x.js", "src/dist/x.js", "web/package-lock.json",
                  "docs/yarn.lock.md"}

ClassifyInit ==
  /\ TextIdle
  /\ MergeIdle
  /\ classified \in [fileLines : MeasuredLines, fileSize : MeasuredSizes,
                     fileName : MeasuredNames]
  /\ cpc = "input"
  /\ subChunkDecision = Unset
  /\ fileExcluded = Unset
  /\ RunIdle

\* the two decisions analyzeDiffInChunks takes about a file: fileName &&
\* shouldExcludeFile(fileName), and shouldSubChunkFile(fileDiff, fileLines,
\* fileSize, fileName)
Classify ==
  /\ cpc = "input"
  /\ cpc' = "done"
  /\ subChunkDecision' = shouldSubChunkFile(classified.fileLines, classified.fileSize,
                                            classified.fileName, maxSubChunkLines)
  /\ fileExcluded' = (/\ classified.fileName # ""
                      /\ shouldExcludeFile(classified.fileName, excludedFilePatterns))
  /\ UNCHANGED classified
  /\ UNCHANGED <<textVars, mergeVars, runVars>>

ClassifyNext == Classify

SpecClassify == ClassifyInit /\ [][ClassifyNext]_vars

\* C25: source-code rule, first match wins -- for a file with a source-code
\* extension whose size is not below the small-file floor, a split is
\* required exactly when the line count exceeds 400 or the size exceeds
\* 20000, and the chunk size of a required split is 120
C25_SourceCodeRule ==
  (/\ cpc = "done"
   /\ HasExtension(classified.fileName, CodeExtensions)
   /\ classified.fileSize >= 15000) =>
    /\ subChunkDecision.needsSubChunking
         <=> (classified.fileLines > 400 \/ classified.fileSize > 20000)
    /\ subChunkDecision.needsSubChunking => subChunkDecision.chunkSize = 120


(***************************************************************************)
(* A chunk without a hunk header                                           *)
(***************************************************************************)
\* the text has no line that matches the hunk header pattern
HasNoHunkHeader(lines) ==
  \A j \in 1..Len(lines) : ~IsWellFormedHunkHeader(lines[j])

\* what analyzeDiffChunk returns for the text when the model call settles
\* with response, from the hunks and the line map computed for the text
ChunkFeedback(response) ==
  FilterFeedback([diffHunks |-> diffHunks, lineToCodeMap |-> lineToCodeMap.lineToCodeMap],
                 response)

\* C31: for a chunk analysed on its own that has no well-formed hunk header
\* the line map is empty, and however the model call settles every item is
\* rejected: the chunk contributes no feedback
C31_HeaderlessChunkYieldsNothing ==
  (tpc = "done" /\ HasNoHunkHeader(diff)) =>
    /\ lineToCodeMap.lineToCodeMap = EmptyMap
    /\ lineToCodeMap.mapped = {}
    /\ \A response \in ModelResponses : ChunkFeedback(response) = <<>>

\* a window of added and context lines cut off from its header, for which the
\* model returns a well-formed item about one of its lines
C31_Witness ==
  /\ tpc = "done"
  /\ HasNoHunkHeader(diff)
  /\ Len(diff) = 3
  /\ diff[1] = ContextLine /\ diff[2] = AddedLine /\ diff[3] = HunkHeaderBad
  /\ IsWellFormedItem(GoodItem)
  /\ ChunkFeedback([kind |-> "array", items |-> <<GoodItem>>]) = <<>>


(***************************************************************************)
(* The way of an item from the model to the posting collaborator           *)
(***************************************************************************)
\* the fields of an item the model sets
ModelFields(item) == [file |-> item.file, line |-> item.line, comment |-> item.comment]

\* the model call of a chunk settles in this step
ChunkSettlesNow == rpc = "batch" /\ Len(settled') = Len(settled) + 1

\* every item kept for the chunk that settles is an item of the response, with
\* the hunk context as the one field besides those of the model
KeptAsReturned ==
  LET e == settled'[Len(settled')]
      kept == chunkResults'[e.chunk]
  IN  \A x \in 1..Len(kept) :
        /\ e.response.kind = "array"
        /\ DOMAIN kept[x] = {"file", "line", "comment", "diffHunk"}
        /\ \E y \in 1..Len(e.response.items) : ModelFields(kept[x]) = e.response.items[y]

\* the results of the batch are collected in this step
BatchCollectedNow == rpc = "batch" /\ inFlight = {} /\ batchStart' # batchStart

\* every item collected is an item already collected or one kept for a chunk
\* of the batch, and what analyzeDiff returns is what was collected
CollectedAsKept ==
  /\ \A x \in 1..Len(allFeedback') :
       \/ \E y \in 1..Len(allFeedback) : allFeedback'[x] = allFeedback[y]
       \/ \E k \in DOMAIN chunkResults :
            \E y \in 1..Len(chunkResults[k]) : allFeedback'[x] = chunkResults[k][y]
  /\ rpc' # "batch" => feedback' = allFeedback'

\* every item handed to the posting collaborator in this step is an item of
\* the feedback with its file, line, comment and hunk context
PostedAsKept ==
  \A x \in (Len(posted) + 1)..Len(posted') :
    \E y \in 1..Len(feedback) :
      /\ ModelFields(posted'[x]) = ModelFields(feedback[y])
      /\ posted'[x].diffHunk = DiffHunkOf(feedback[y])

\* C32: validation leaves accepted items unchanged -- the file, line and
\* comment of an item that passes the validation of its chunk and is posted
\* are those the model returned at every step of its way: when it is kept for
\* its chunk, when the batch is collected and returned, and when it is handed
\* to the posting collaborator; the hunk context is the only field added
C32_AcceptedItemsUnchanged ==
  [][/\ ChunkSettlesNow => KeptAsReturned
     /\ BatchCollectedNow => CollectedAsKept
     /\ (Len(posted') > Len(posted)) => PostedAsKept]_vars

\* an item that the model returned for a chunk beside an item that was
\* rejected has been handed to the posting collaborator as the model gave it
C32_Witness ==
  /\ Len(finalChunks) > 0
  /\ Len(posted) > 0
  /\ ModelFields(posted[1]) = GoodItem
  /\ \E x \in 1..Len(settled) :
       settled[x].response = [kind |-> "array", items |-> <<GoodItem, BadLineItem>>]
  /\ \A y \in 1..Len(feedback) : ModelFields(feedback[y]) # BadLineItem


(***************************************************************************)
(* The files analyzeDiffInChunks leaves out                                *)
(***************************************************************************)
\* the path equals the configured pattern, starts with it or ends with it
MatchesAsConfigured(fileName, pattern) ==
  \/ fileName = pattern
  \/ StartsWith(fileName, pattern)
  \/ EndsWith(fileName, pattern)

\* C33: a file is left out of the analysis only if its path equals a
\* configured file name, starts with a configured path prefix, ends with a
\* configured suffix, or matches one of the built-in patterns
C33_ExcludedOnlyByPattern ==
  (cpc = "done" /\ classified.fileName # "") =>
    (fileExcluded =>
       \/ \E k \in 1..Len(excludedFilePatterns) :
            MatchesAsConfigured(classified.fileName, excludedFilePatterns[k])
       \/ MatchesSmartExclusion(classified.fileName))


(***************************************************************************)
(* The batch loop with every model call settling: SpecLive                 *)
(***************************************************************************)
\* the steps of ChunkSettles, told by what they do to inFlight
SomeChunkSettles ==
  /\ rpc = "batch"
  /\ \E k \in inFlight : inFlight' = inFlight \ {k}

\* the steps of BatchCompletes, told by what they do to batchStart
BatchAdvances ==
  /\ rpc = "batch"
  /\ inFlight = {}
  /\ batchStart' = batchStart + parallelBatchSize

\* every model call of a chunk settles in the end, and the loop goes on when
\* Promise.all of the batch has resolved
SpecLive == Spec /\ WF_inFlight(SomeChunkSettles) /\ WF_batchStart(BatchAdvances)

\* analyzeDiffChunk has been called exactly once for every chunk of finalChunks
EachChunkAnalysedOnce ==
  /\ Len(invocations) = Len(finalChunks)
  /\ \A k \in 1..Len(finalChunks) :
       Cardinality({x \in 1..Len(invocations) : invocations[x] = k}) = 1

\* C34: with a batch size >= 1 and every analysis of a chunk settling in the
\* end, analyzeDiffInChunks returns in the end, and by then analyzeDiffChunk
\* has been called exactly once for each chunk of the final chunk list; at no
\* time has it been called twice for a chunk
C34_BatchLoopTerminates ==
  /\ [](\A x, y \in 1..Len(invocations) : invocations[x] = invocations[y] => x = y)
  /\ (rpc = "batch") ~> (AnalysisReturned /\ EachChunkAnalysedOnce)

\* three chunks analysed in two batches of at most two, and the analysis has
\* returned
C34_Witness ==
  /\ AnalysisReturned
  /\ parallelBatchSize = DefaultParallelBatchSize
  /\ Len(finalChunks) = 3
  /\ invocations = <<1, 2, 3>>
  /\ batchStart = 4


(***************************************************************************)
(* C35: the host's check against the local validation index                *)
(***************************************************************************)
MaxCheckedDiffLines == 4

CheckedDiffs == UNION {[1..n -> DiffLines] : n \in 1..MaxCheckedDiffLines}

LineCheckInit ==
  /\ diff \in CheckedDiffs
  /\ maxSubChunkLines = DefaultMaxSubChunkLines
  /\ tpc = "input"
  /\ validationMap = Unset
  /\ lineToCodeMap = Unset
  /\ diffHunks = Unset
  /\ files = Unset
  /\ subChunks = Unset
  /\ lineInDiff = Unset
  /\ MergeIdle
  /\ ClassifyIdle
  /\ RunIdle

\* the processor builds its validation index of the diff, and the host checks
\* every file and line against the diff it fetches (the same text) or fails
\* to fetch
CheckLines ==
  /\ tpc = "input"
  /\ tpc' = "done"
  /\ validationMap' = buildValidationMap(diff)
  /\ \E fetched \in BOOLEAN :
       lineInDiff' = [fetched |-> fetched,
                      valid |-> [file \in CheckedFiles |->
                                   [n \in CheckedLines |->
                                      validateLineInDiff(fetched, diff, file, n)]]]
  /\ UNCHANGED <<diff, maxSubChunkLines, lineToCodeMap, diffHunks, files, subChunks>>
  /\ UNCHANGED <<mergeVars, classifyVars, runVars>>

LineCheckNext == CheckLines

SpecLineCheck == LineCheckInit /\ [][LineCheckNext]_vars

\* C35: on the same diff validateLineInDiff answers true for (file, line)
\* exactly when validateCommentLocally over buildValidationMap accepts it, and
\* it answers false when the diff cannot be fetched
C35_HostCheckAgreesWithLocal ==
  tpc = "done" =>
    \A file \in CheckedFiles, n \in CheckedLines :
      IF lineInDiff.fetched
        THEN lineInDiff.valid[file][n]
               <=> validateCommentLocally(FeedbackAt(file, n), validationMap)
        ELSE ~lineInDiff.valid[file][n]


(***************************************************************************)
(* Review jobs of several pull request events on the Review table: SpecJobs *)
(***************************************************************************)
MaxJobs == 2
JobIds == 1..MaxJobs
PullRequestIds == {101, 102}
CommitShas == {"sha1", "sha2"}

\* the rows with the pullRequestId
RowsOf(table, pullRequestId) == {row \in table : row.pullRequestId = pullRequestId}

\* "id" SERIAL: rows are never deleted
NextReviewId(table) == IF table = {} THEN 1 ELSE Max({row.id : row \in table}) + 1

\* the row prisma.review.create and the create branch of upsert insert;
\* result is 0 (null) until a job writes its feedback
NewReview(table, data) ==
  [id |-> NextReviewId(table), pullRequestId |-> data.pullRequestId,
   commitSha |-> data.commitSha, status |-> "PENDING", result |-> 0]

\* a bug: prisma.review.create in place of the upsert; with a row of the pull
\* request in the table Review_pullRequestId_key refuses the insert
ReviewCreate(table, data) ==
  IF RowsOf(table, data.pullRequestId) # {}
    THEN [table |-> table, id |-> 0, uniqueViolation |-> TRUE]
    ELSE [table |-> table \cup {NewReview(table, data)}, id |-> NextReviewId(table),
          uniqueViolation |-> FALSE]

\* prisma.review.upsert({where: {pullRequestId}, update: {status: 'PENDING',
\* commitSha, updatedAt}, create: {...}}) as one statement of the database:
\* the table after it, the id of the row it returns, and whether the unique
\* index refused it
ReviewUpsert(table, data) ==
  LET existing == RowsOf(table, data.pullRequestId)
  IN  IF existing # {}
        THEN LET row == CHOOSE r \in existing : TRUE
             IN  [table |-> (table \ {row}) \cup
                              {[row EXCEPT !.status = "PENDING",
                                           !.commitSha = data.commitSha]},
                  id |-> row.id, uniqueViolation |-> FALSE]
        ELSE [table |-> table \cup {NewReview(table, data)}, id |-> NextReviewId(table),
              uniqueViolation |-> FALSE]

\* prisma.review.update({where: {id}, data: {status}}) and, with result # 0,
\* data: {status, result}
ReviewUpdate(table, id, status, result) ==
  {IF row.id = id
     THEN [row EXCEPT !.status = status, !.result = IF result = 0 THEN @ ELSE result]
     ELSE row : row \in table}

\* a row left by an earlier, completed job of pull request 101
EarlierRow ==
  [id |-> 1, pullRequestId |-> 101, commitSha |-> "sha0", status |-> "COMPLETED",
   result |-> 0]

NewJobs ==
  {[pullRequestId |-> p, commitSha |-> c, pc |-> "start", reviewId |-> 0, error |-> ""] :
     p \in PullRequestIds, c \in CommitShas}

JobsInit ==
  /\ TextIdle
  /\ MergeIdle
  /\ ClassifyIdle
  /\ ProcessIdle
  /\ reviewTable \in {{}, {EarlierRow}}
  /\ jobs \in [JobIds -> NewJobs]

JobGoes(j, pc) == jobs' = [jobs EXCEPT ![j].pc = pc]

JobRaises(j, error) == jobs' = [jobs EXCEPT ![j].pc = "failed", ![j].error = error]

\* prisma.repository.findUnique
JobFindRepository(j) ==
  /\ jobs[j].pc = "start"
  /\ \E found \in BOOLEAN :
       IF found THEN JobGoes(j, "upsert") ELSE JobRaises(j, "repository not found")
  /\ UNCHANGED reviewTable

\* prisma.review.upsert: the statement runs, or the database cannot be reached
JobUpsertReview(j) ==
  /\ jobs[j].pc = "upsert"
  /\ \E reached \in BOOLEAN :
       IF reached
         THEN \E done \in {ReviewUpsert(reviewTable, jobs[j])} :
                IF done.uniqueViolation
                  THEN JobRaises(j, "unique constraint") /\ UNCHANGED reviewTable
                  ELSE /\ reviewTable' = done.table
                       /\ jobs' = [jobs EXCEPT ![j].pc = "mark", ![j].reviewId = done.id]
         ELSE JobRaises(j, "database") /\ UNCHANGED reviewTable

\* prisma.review.update to PROCESSING; a failure is logged and ignored
JobMarkProcessing(j) ==
  /\ jobs[j].pc = "mark"
  /\ \E ok \in BOOLEAN :
       reviewTable' = IF ok THEN ReviewUpdate(reviewTable, jobs[j].reviewId, "PROCESSING", 0)
                      ELSE reviewTable
  /\ JobGoes(j, "fetch")

\* vcsService.getPullRequestDiff
JobFetchDiff(j) ==
  /\ jobs[j].pc = "fetch"
  /\ \E ok \in BOOLEAN : IF ok THEN JobGoes(j, "rules") ELSE JobRaises(j, "diff")
  /\ UNCHANGED reviewTable

\* vcsService.getFileContent for the rules file
JobFetchRules(j) ==
  /\ jobs[j].pc = "rules"
  /\ \E ok \in BOOLEAN : IF ok THEN JobGoes(j, "analyze") ELSE JobRaises(j, "rules")
  /\ UNCHANGED reviewTable

\* aiService.analyzeDiff and the posting of its feedback: neither writes to
\* the Review table; analyzeDiff may raise
JobAnalyseAndPost(j) ==
  /\ jobs[j].pc = "analyze"
  /\ \E ok \in BOOLEAN : IF ok THEN JobGoes(j, "complete") ELSE JobRaises(j, "analysis")
  /\ UNCHANGED reviewTable

\* prisma.review.update to COMPLETED with the feedback of the job; a failure is
\* logged and ignored
JobCompleteReview(j) ==
  /\ jobs[j].pc = "complete"
  /\ \E ok \in BOOLEAN :
       reviewTable' = IF ok THEN ReviewUpdate(reviewTable, jobs[j].reviewId, "COMPLETED", j)
                      ELSE reviewTable
  /\ JobGoes(j, "returned")

JobsNext ==
  /\ \E j \in JobIds :
       \/ JobFindRepository(j)
       \/ JobUpsertReview(j)
       \/ JobMarkProcessing(j)
       \/ JobFetchDiff(j)
       \/ JobFetchRules(j)
       \/ JobAnalyseAndPost(j)
       \/ JobCompleteReview(j)
  /\ UNCHANGED <<textVars, mergeVars, classifyVars, runConfig, rpc, review, analysisVars,
                 postingVars>>

SpecJobs == JobsInit /\ [][JobsNext]_vars

\* job j's upsert statement has run in this step
UpsertRan(j) == jobs[j].pc = "upsert" /\ jobs'[j].pc # "upsert" /\ jobs'[j].error # "database"

\* the step left the row of job j's pull request that was there, reset to
\* PENDING with the job's commitSha, as the only row of the pull request
ExistingRowReset(j) ==
  \A row \in RowsOf(reviewTable, jobs[j].pullRequestId) :
    /\ jobs'[j].pc = "mark"
    /\ jobs'[j].reviewId = row.id
    /\ RowsOf(reviewTable', jobs[j].pullRequestId) =
         {[row EXCEPT !.status = "PENDING", !.commitSha = jobs[j].commitSha]}

WritesCompleted ==
  /\ review'.exists
  /\ review'.status = "COMPLETED"
  /\ ~review.exists \/ review.status # "COMPLETED"

\* analyzeDiff has returned, no model call is in flight, and every item of the
\* feedback has had its posting attempt or was refused before it
AnalysisAndPostingOver ==
  /\ rpc = "complete"
  /\ inFlight = {}
  /\ IF processor = "direct" THEN Len(posted) = Len(feedback)
     ELSE Len(successfulComments) + Len(failedComments) = Len(feedback)
  /\ processor = "local" => Len(posted) = Len(successfulComments) + 
                              Cardinality({k \in 1..Len(failedComments) :
                                             failedComments[k].error = "Batch posting failed"})

\* C37: within one run COMPLETED is written only after the analysis and every
\* posting attempt have finished, it is written at most once (by the step that
\* ends the run, after which nothing runs), and a run that aborts with an
\* error has written PENDING or PROCESSING at most, never COMPLETED
C37_CompletedOnlyAtTheEnd ==
  /\ [][WritesCompleted => (AnalysisAndPostingOver /\ rpc' = "returned")]_vars
  /\ [][(rpc \in {"returned", "failed"}) => (rpc' = rpc /\ review' = review)]_vars
  /\ [][(rpc' = "failed") =>
          (/\ ~WritesCompleted
           /\ review' # review => review'.status \in {"PENDING", "PROCESSING"})]_vars

\* a run that completed a review with feedback, one of whose comments failed
C37_Witness ==
  /\ rpc = "returned"
  /\ review.exists /\ review.status = "COMPLETED"
  /\ Len(review.result) > 0
  /\ Len(failedComments) > 0
  /\ Len(posted) > 0

====
